---- MODULE Spec2Model ----
(***************************************************************************)
(* A state-machine model of the B-UML structural metamodel                 *)
(* (besser/BUML/metamodel/structural/structural.py): the entity graph and  *)
(* the setters that keep its back-references and collection invariants.    *)
(*                                                                         *)
(* Objects are drawn from finite pools (Classes, Props, Assocs, ...); an   *)
(* object that has not been constructed yet has its fields at their        *)
(* "unset" value.  Every action is one call of a constructor, a property   *)
(* setter or an add_* method, modelled to its end: either it raises and    *)
(* leaves behind exactly what the code had already written, or it returns. *)
(* The variable last records the call that was made and whether it raised. *)
(***************************************************************************)
EXTENDS Integers, FiniteSets, Sequences, TLC

(***************************************************************************)
(* Bounds of the object pools.                                             *)
(***************************************************************************)
MaxClasses == 3
MaxProps == 4
MaxAssocs == 1
MaxGens == 2
MaxMults == 2
MaxValue == 2
MaxMemberClasses == 1
MaxAttrs == 3
MaxMethods == 3
MaxEnums == 1
MaxLits == 3
MaxSharing == 2
MaxSharedProps == 3
MaxOwnerClasses == 2
MaxModelTypes == 3
MaxModelAssocs == 3
MaxPackages == 2
MaxConstraints == 2
MaxElements == 3
MaxTyped == 3
MaxRemovable == 5
MaxUpdateProps == 4
MaxUpdateNames == 2
MaxRequestEnds == 2
MaxAssocClasses == 1
MaxAssocClassAttrs == 2
MaxAssocClassMethods == 2

Classes == 1..MaxClasses
Props == 1..MaxProps
Assocs == 1..MaxAssocs
Gens == 1..MaxGens
Mults == 1..MaxMults
DefaultMultiplicity == MaxMults + 1      \* the object made for the default argument
MemberClasses == 1..MaxMemberClasses    \* the classes whose members are assigned
Attrs == 1..MaxAttrs                    \* the properties used as attributes
Methods == 1..MaxMethods
Enums == 1..MaxEnums
Lits == 1..MaxLits
SharingAssocs == 1..MaxSharing            \* the associations that may share ends
SharedProps == 1..MaxSharedProps        \* the properties they take their ends from
AssocObjects == Assocs \cup SharingAssocs
OwnerClasses == 1..MaxOwnerClasses      \* the classes that may receive one property
ModelTypes == 1..MaxModelTypes          \* the types given to the domain model
ModelAssocs == 1..MaxModelAssocs        \* the associations given to it
Packages == 1..MaxPackages
Constraints == 1..MaxConstraints
AssocClasses == 1..MaxAssocClasses      \* the AssociationClass objects
AssocClassAttrs == 1..MaxAssocClassAttrs  \* the properties given to them as attributes
AssocClassMethods == 1..MaxAssocClassMethods  \* the methods given to them
UpdateProps == 1..MaxUpdateProps        \* the ends of the association that is updated
UpdateNames == 1..MaxUpdateNames        \* the names of these ends
RemovableAttrs == 1..MaxRemovable      \* the properties added to a class and removed again
TypedElements == 1..MaxTyped          \* the typed elements built from a type argument
PropObjects == Props \cup Attrs \cup SharedProps \cup RemovableAttrs
\* The Multiplicity object that update_association has made for the property
\* p and that p holds.
UpdateMultiplicity(p) == DefaultMultiplicity + p
UpdateMultiplicities == {UpdateMultiplicity(p) : p \in PropObjects}
MultObjects == Mults \cup {DefaultMultiplicity} \cup UpdateMultiplicities
AsClass(x) == MaxClasses + x             \* AssociationClass object x, as a Class
AllClasses == Classes \cup {AsClass(x) : x \in AssocClasses}
Slots == 1..(2 * (MaxClasses + MaxAssocClasses))  \* the attributes and the methods fields
SetObjects == 1..(2 * (MaxClasses + MaxAssocClasses) + 2)  \* the Python set objects

VARIABLES
    ends,           \* Association.__ends: the set of ends, {} while unset
    ends_list,      \* Association.__ends when it is a list, <<>> when it is a set
    assoc_class,    \* the Python class of each association object
    associations,   \* Class.__associations: back-references to associations
    type,           \* TypedElement.__type of each Property
    is_composite,   \* Property.__is_composite
    is_id,          \* Property.__is_id
    prop_owner,     \* Property.__owner
    general,        \* Generalization.__general, NoClass while unset
    specific,       \* Generalization.__specific, NoClass while unset
    generalizations,\* Class.__generalizations: back-references
    multiplicities, \* the Multiplicity objects that have been constructed
    min,            \* Multiplicity.__min
    max,            \* Multiplicity.__max
    attributes,     \* Class.__attributes: a set object, None before construction
    methods,        \* Class.__methods: a set object, None before construction
    elements,       \* the members of each set object
    method_owner,   \* Method.__owner
    member_kind,    \* the kind of member or element that a behaviour works on
    literals,       \* Enumeration.__literals
    lit_owner,      \* EnumerationLiteral.__owner
    model_constructed,  \* the DomainModel object exists
    model_types,        \* DomainModel.__types
    model_associations, \* DomainModel.__associations
    model_packages,     \* DomainModel.__packages
    model_constraints,  \* DomainModel.__constraints
    constructed,    \* the properties, methods and literals constructed so far
    multiplicity,   \* Property.multiplicity: the Multiplicity object, None while unset
    time,           \* the last reading of time.perf_counter_ns(), in nanoseconds
    now,            \* the last reading of datetime.now(), in microseconds
    timestamps,     \* NamedElement.__timestamp of the elements, in construction order
    typed_type,     \* TypedElement.__type of each element of TypedElements
    types_created,  \* the number of Type objects the constructors have made
    type_mapping,   \* TypedElement.type_mapping
    model_classes,  \* the Class objects among DomainModel.__types
    association_class, \* the fields of each AssociationClass object
    last            \* the last call: its name, receiver, argument, outcome

assoc_vars == <<ends, ends_list, assoc_class, associations, type, is_composite, is_id>>
gen_vars == <<general, specific, generalizations>>
mult_vars == <<multiplicities, min, max>>
class_vars == <<attributes, methods, elements, method_owner, member_kind>>
enum_vars == <<literals, lit_owner>>
model_vars == <<model_constructed, model_types, model_associations,
               model_packages, model_constraints>>
owner_vars == <<constructed, multiplicity>>
clock_vars == <<time, now, timestamps>>
typed_vars == <<typed_type, types_created, type_mapping>>
container_vars == <<model_classes, association_class>>
element_vars == <<owner_vars, clock_vars, typed_vars, container_vars>>
\* What a call on an owner, and what a construction of a named element,
\* leaves alone among the variables of element_vars.
except_owner_vars == <<clock_vars, typed_vars, container_vars>>
except_clock_vars == <<owner_vars, typed_vars, container_vars>>
except_typed_vars == <<owner_vars, clock_vars, container_vars>>
except_container_vars == <<owner_vars, clock_vars, typed_vars>>
vars == <<ends, ends_list, assoc_class, associations, type, is_composite, is_id,
          prop_owner,
          general, specific, generalizations,
          multiplicities, min, max,
          attributes, methods, elements, method_owner, member_kind,
          literals, lit_owner,
          model_constructed, model_types, model_associations,
          model_packages, model_constraints,
          constructed, multiplicity, time, now, timestamps,
          typed_type, types_created, type_mapping, model_classes,
          association_class, last>>

(***************************************************************************)
(* Owners.  A Property is owned by a Class, by an Association, or by       *)
(* nothing (None).  An owner is written <<its Python class, its number>>.  *)
(***************************************************************************)
None == 0
NoOwner == <<"None", None>>
ClassOwner(c) == <<"Class", c>>
AssociationOwner(a) == <<"Association", a>>
EnumerationOwner(e) == <<"Enumeration", e>>
DataTypeOwner(d) == <<"DataType", d>>
PrimitiveDataTypeOwner(d) == <<"PrimitiveDataType", d>>

\* The members and the literals, written <<their Python class, their number>>.
Property_(p) == <<"Property", p>>
Method_(m) == <<"Method", m>>
EnumerationLiteral_(l) == <<"EnumerationLiteral", l>>

Call(op, self, arg, raised) ==
    [op |-> op, self |-> self, arg |-> arg, raised |-> raised]

(***************************************************************************)
(* The Property objects of the pool.  Property p was constructed with the  *)
(* class PropType(p) as its type, and the odd ones with is_composite =     *)
(* True and is_id = True: properties 1 and 2 are typed by class 1, 3 and 4 *)
(* by class 2, ...                                                         *)
(***************************************************************************)
PropType(p) == ((((p + 1) \div 2) - 1) % MaxClasses) + 1

(***************************************************************************)
(* Association / BinaryAssociation                                         *)
(***************************************************************************)

\* Class._add_association: self.__associations.add(association)
Class_add_association(held, a) == held \cup {a}

\* A faulty _delete_association that leaves the back-reference in place.
Class_delete_association_Stale(held, a) == held

\* Class._delete_association: self.__associations.discard(association)
Class_delete_association(held, a) == held \ {a}

\* "for end in S: end.type._delete_association(association=a)", lines 1968-1969:
\* every class that types some end of S discards a (discarding twice is
\* discarding once, so the order of the iteration is immaterial).
DeleteFromEndTypes(S, assocs, a) ==
    [c \in Classes |-> IF \E e \in S : type[e] = c
                       THEN Class_delete_association(assocs[c], a)
                       ELSE assocs[c]]

\* "for end in S: ... end.type._add_association(association=a)", lines 1970-1972.
AddToEndTypes(S, assocs, a) ==
    [c \in Classes |-> IF \E e \in S : type[e] = c
                       THEN Class_add_association(assocs[c], a)
                       ELSE assocs[c]]

\* Association.ends (setter), line 1965: fewer than two ends.
AssociationEndsRaises(E) == Cardinality(E) <= 1

\* A faulty BinaryAssociation.ends that omits the check of the composite ends.
BinaryAssociationEndsRaises_NoCompositeCheck(E) ==
    \/ Cardinality(E) # 2
    \/ Cardinality(E) <= 1

\* BinaryAssociation.ends (setter), lines 2009-2012: not exactly two ends, or
\* both of them composite; then the checks of Association.ends.
BinaryAssociationEndsRaises(E) ==
    \/ Cardinality(E) # 2
    \/ \A e \in E : is_composite[e]
    \/ AssociationEndsRaises(E)

EndsRaises(cls, E) ==
    IF cls = "BinaryAssociation" THEN BinaryAssociationEndsRaises(E)
    ELSE AssociationEndsRaises(E)

\* Association.ends (setter), lines 1967-1973, once the checks have passed:
\* the old ends' classes drop the association, every new end gets the
\* association as owner and its class the back-reference, the set is stored.
AssociationEndsStore(a, E) ==
    /\ associations' =
          AddToEndTypes(E, DeleteFromEndTypes(ends[a], associations, a), a)
    /\ prop_owner' = [p \in PropObjects |-> IF p \in E THEN AssociationOwner(a)
                                      ELSE prop_owner[p]]
    /\ ends' = [ends EXCEPT ![a] = E]
    /\ ends_list' = [ends_list EXCEPT ![a] = <<>>]

\* Association.__init__ / BinaryAssociation.__init__ (inherited): the
\* constructor assigns self.ends; when the setter raises no object results.
Association__init__(a, cls, E) ==
    /\ assoc_class[a] = "None"
    /\ IF EndsRaises(cls, E)
       THEN /\ last' = Call(cls, a, E, TRUE)
            /\ UNCHANGED <<ends, ends_list, assoc_class, associations, prop_owner>>
       ELSE /\ AssociationEndsStore(a, E)
            /\ assoc_class' = [assoc_class EXCEPT ![a] = cls]
            /\ last' = Call(cls, a, E, FALSE)
    /\ UNCHANGED <<type, is_composite, is_id, gen_vars, mult_vars, class_vars, enum_vars,
                   model_vars, element_vars>>

\* a.ends = E on an association that exists.
AssociationEndsSetter(a, E) ==
    /\ assoc_class[a] # "None"
    /\ IF EndsRaises(assoc_class[a], E)
       THEN /\ last' = Call("ends", a, E, TRUE)
            /\ UNCHANGED <<ends, ends_list, associations, prop_owner>>
       ELSE /\ AssociationEndsStore(a, E)
            /\ last' = Call("ends", a, E, FALSE)
    /\ UNCHANGED <<assoc_class, type, is_composite, is_id, gen_vars, mult_vars, class_vars,
                   enum_vars, model_vars, element_vars>>

\* The name of an end of the association that is updated: the properties
\* p and p + MaxUpdateNames are two objects of one name.
UpdateName(p) == ((p - 1) % MaxUpdateNames) + 1

\* The ends of a request of update_association (AssociationCreate.ends, a
\* list of PropertyCreate, lines 40-48 and 69-71 of
\* restapi_structural_buml.py): each is <<name, property_type,
\* is_composite>>, where the property_type None stands for a name that is
\* no class of db_classes.  Every field but the name and the type has its
\* default: multiplicity = (1, 1), visibility = 'public', is_composite =
\* False, is_navigable = False, is_id = False, is_read_only = False.
RequestEnds == UpdateNames \X (OwnerClasses \cup {None}) \X {FALSE}

\* The requests: lists of at most MaxRequestEnds ends.
Requests == UNION {[1..n -> RequestEnds] : n \in 0..MaxRequestEnds}

\* The last end of the name n in the list L.
LastNamed(L, n) ==
    L[CHOOSE i \in DOMAIN L :
         /\ UpdateName(L[i]) = n
         /\ \A j \in DOMAIN L : UpdateName(L[j]) = n => j <= i]

\* "existing_ends = {end.name: end for end in existing_association.ends}",
\* line 452 of restapi_structural_buml.py: of the ends of one name the dict
\* keeps the one met last, which in a list is the last one and in a set can
\* be any of them.  The dicts that can result.
ExistingEnds(a) ==
    LET names == {UpdateName(e) : e \in ends[a]}
    IN IF ends_list[a] # <<>>
       THEN {[n \in names |-> LastNamed(ends_list[a], n)]}
       ELSE {f \in [names -> ends[a]] : \A n \in names : UpdateName(f[n]) = n}

\* The properties of the name n that can stand for a Property made during
\* the call: the association does not hold them and the call has not made
\* them.
FreeProperties(a, n, made) ==
    {p \in UpdateProps : UpdateName(p) = n /\ p \notin ends[a] /\ p \notin made}

\* Property(name=n, ...), lines 469-478: a new object, for which the first
\* free property of the pool stands.
NewProperty(a, n, made) ==
    CHOOSE p \in FreeProperties(a, n, made) :
        \A q \in FreeProperties(a, n, made) : p <= q

RECURSIVE update_association_loop(_, _, _, _, _)
\* update_association, lines 454-479 (restapi_structural_buml.py), from the
\* entry i of the request on, where st holds the types, the is_composite
\* and the owners of the properties, the list new_ends and the properties
\* made so far: a class that does not exist ends the call with
\* HTTPException (line 457), with the fields assigned so far left assigned;
\* an entry that names an end of the association takes that end and assigns
\* the class as its type through TypedElement.type (setter, lines 701-711 of
\* structural.py, which tells no class) and is_composite (line 464); any
\* other entry makes a new Property of that type and is_composite, owned by
\* nothing; the end is appended to new_ends.  Every end of new_ends has been
\* given a new Multiplicity(1, 1) and is_id = False (lines 462, 466, 472,
\* 476).
update_association_loop(a, req, i, existing_ends, st) ==
    IF i > Len(req) THEN [st EXCEPT !.raised = FALSE]
    ELSE IF req[i][2] = None THEN [st EXCEPT !.raised = TRUE]
    ELSE IF req[i][1] \in DOMAIN existing_ends
    THEN LET end == existing_ends[req[i][1]]
         IN update_association_loop(a, req, i + 1, existing_ends,
                [st EXCEPT !.type[end] = req[i][2],
                           !.is_composite[end] = req[i][3],
                           !.new_ends = Append(@, end)])
    ELSE LET end == NewProperty(a, req[i][1], st.made)
         IN update_association_loop(a, req, i + 1, existing_ends,
                [st EXCEPT !.type[end] = req[i][2],
                           !.is_composite[end] = req[i][3],
                           !.owner[end] = NoOwner,
                           !.made = @ \cup {end},
                           !.new_ends = Append(@, end)])

\* "end.multiplicity = Multiplicity(1, 1)" for every property of T, lines
\* 462 and 472: each holds a new object of its own.  A Multiplicity object
\* made by an earlier call that other properties still hold is from then on
\* written as the object of the first of them.
MultiplicityOfEnds(T) ==
    [q \in PropObjects |->
        IF q \in T THEN UpdateMultiplicity(q)
        ELSE IF multiplicity[q] \in {UpdateMultiplicity(x) : x \in T}
        THEN UpdateMultiplicity(
                 CHOOSE r \in PropObjects \ T :
                    /\ multiplicity[r] = multiplicity[q]
                    /\ \A t \in PropObjects \ T :
                          multiplicity[t] = multiplicity[q] => r <= t)
        ELSE multiplicity[q]]

\* Multiplicity.min or Multiplicity.max (the field f) of every Multiplicity
\* object once the properties of T hold a new Multiplicity(1, 1) and the
\* properties hold the objects after.
BoundsOfEnds(f, T, after) ==
    [m \in MultObjects |->
        IF m \in {UpdateMultiplicity(x) : x \in T} THEN 1
        ELSE IF \E q \in PropObjects \ T : after[q] = m
        THEN f[multiplicity[CHOOSE q \in PropObjects \ T : after[q] = m]]
        ELSE f[m]]

\* The fields that the loop has assigned to the properties of T when
\* update_association ends, whether it fails or not: the Multiplicity
\* objects that no property holds any more are gone.
UpdatedEnds(T) ==
    \E after \in {MultiplicityOfEnds(T)} :
        /\ is_id' = [p \in PropObjects |-> IF p \in T THEN FALSE ELSE is_id[p]]
        /\ multiplicity' = after
        /\ multiplicities' =
              (multiplicities \ UpdateMultiplicities)
                 \cup {m \in UpdateMultiplicities : \E q \in PropObjects : after[q] = m}
        /\ min' = BoundsOfEnds(min, T, after)
        /\ max' = BoundsOfEnds(max, T, after)

\* The ends setter given the LIST new_ends, where composite gives
\* is_composite of the properties: BinaryAssociation.ends, lines 2009-2012
\* of structural.py (len(ends) != 2, or list(ends)[0] and list(ends)[1] both
\* composite), and Association.ends, line 1965 (len(ends) <= 1); len()
\* counts an end as many times as the list holds it.
ListEndsRaises(cls, new_ends, composite) ==
    \/ /\ cls = "BinaryAssociation"
       /\ \/ Len(new_ends) # 2
          \/ composite[new_ends[1]] /\ composite[new_ends[2]]
    \/ Len(new_ends) <= 1

\* Association.ends (setter), lines 1967-1972, with the types ty of the
\* properties: every class that types an old end discards the association,
\* every class that types a new end adds it.
EndsSetterBackRefs(ty, old_ends, new_ends, a) ==
    LET dropped == [c \in Classes |->
                      IF \E e \in old_ends : ty[e] = c
                      THEN Class_delete_association(associations[c], a)
                      ELSE associations[c]]
    IN [c \in Classes |->
          IF \E e \in new_ends : ty[e] = c
          THEN Class_add_association(dropped[c], a)
          ELSE dropped[c]]

\* The request makes no more properties of one name than the pool has.
EnoughProperties(a, req) ==
    \A n \in UpdateNames :
        Cardinality({i \in DOMAIN req : req[i][1] = n})
            <= Cardinality(FreeProperties(a, n, {}))
        \/ n \in {UpdateName(e) : e \in ends[a]}

\* update_association(association_id, association_data), lines 439-483 of
\* restapi_structural_buml.py, for the association a of db_associations, an
\* Association or a BinaryAssociation (404 when there is none), and the
\* ends req of the request, whose name is the association's.  The ends
\* setter is given the list new_ends and stores it (line 481 and line 1973
\* of structural.py).  A Property that the call has made and that the
\* association does not get is held by nothing.
update_association(a, req) ==
    /\ EnoughProperties(a, req)
    /\ IF assoc_class[a] = "None"
       THEN /\ last' = Call("update_association", a, <<>>, TRUE)
            /\ UNCHANGED <<type, is_composite, is_id, ends, ends_list, associations,
                           prop_owner, mult_vars, multiplicity>>
       ELSE \E existing_ends \in ExistingEnds(a) :
            \E loop \in {update_association_loop(a, req, 1, existing_ends,
                            [type |-> type, is_composite |-> is_composite,
                             owner |-> prop_owner, made |-> {},
                             new_ends |-> <<>>, raised |-> FALSE])} :
            LET new_ends == loop.new_ends
                E == {new_ends[i] : i \in DOMAIN new_ends}
            IN /\ type' = loop.type
               /\ is_composite' = loop.is_composite
               /\ UpdatedEnds(E)
               /\ IF \/ loop.raised
                     \/ ListEndsRaises(assoc_class[a], new_ends, loop.is_composite)
                  THEN /\ prop_owner' = loop.owner
                       /\ last' = Call("update_association", a, new_ends, TRUE)
                       /\ UNCHANGED <<ends, ends_list, associations>>
                  ELSE /\ associations' = EndsSetterBackRefs(loop.type, ends[a], E, a)
                       /\ prop_owner' = [p \in PropObjects |->
                                           IF p \in E THEN AssociationOwner(a)
                                           ELSE loop.owner[p]]
                       /\ ends' = [ends EXCEPT ![a] = E]
                       /\ ends_list' = [ends_list EXCEPT ![a] = new_ends]
                       /\ last' = Call("update_association", a, new_ends, FALSE)
    /\ UNCHANGED <<assoc_class, gen_vars, class_vars, enum_vars, model_vars,
                   except_owner_vars, constructed>>

\* The body of the loop of Class.association_ends, lines 1862-1869, for one
\* association a of the class c: the ends of a are added to the ends
\* collected so far; unless list(aends) has exactly two entries of one type
\* (a list of ends holds an end as many times as it was given), every end
\* of a that is typed by c is then discarded from the collection.
AssociationEndsStep(collected, a, c) ==
    LET aends == ends[a]
        added == collected \cup aends
        len == IF ends_list[a] # <<>> THEN Len(ends_list[a]) ELSE Cardinality(aends)
    IN IF len = 2 /\ \A e \in aends, f \in aends : type[e] = type[f]
       THEN added
       ELSE added \ {e \in aends : type[e] = c}

RECURSIVE ForEachAssociation(_, _, _)
\* "for association in self.__associations", line 1862, with the
\* associations of todo taken in any order: the collections that can result.
ForEachAssociation(todo, collected, c) ==
    IF todo = {} THEN {collected}
    ELSE UNION {ForEachAssociation(todo \ {a}, AssociationEndsStep(collected, a, c), c) :
                   a \in todo}

\* Class.association_ends, lines 1859-1870: the sets that the method can
\* return in the current state.
association_ends(c) == ForEachAssociation(associations[c], {}, c)

(***************************************************************************)
(* Generalization                                                          *)
(***************************************************************************)
NoClass == None

\* hasattr(self, "general"), line 2097: the field is set from the first
\* statement of the constructor on (line 2084), so it is set in every
\* Generalization object that exists.
hasattr_general(g) == general[g] # NoClass

\* hasattr(self, "specific"), line 2117: false in the object of a constructor
\* that raised at line 2085, until a later assignment of specific succeeds.
hasattr_specific(g) == specific[g] # NoClass

\* A generalization with both fields set.
Constructed(g) == hasattr_general(g) /\ hasattr_specific(g)

\* Class._add_generalization: self.__generalizations.add(generalization)
Class_add_generalization(gens, c, g) == [gens EXCEPT ![c] = @ \cup {g}]

\* Class._delete_generalization: self.__generalizations.discard(generalization)
Class_delete_generalization(gens, c, g) == [gens EXCEPT ![c] = @ \ {g}]

\* Generalization.general (setter), lines 2096-2099, as a function of the
\* back-references gens: the old general class, if the field is set, drops
\* g, the new one adds it.  The setter has no check and never raises.
GeneralSetterBackRefs(gens, g, X) ==
    LET dropped == IF hasattr_general(g)
                   THEN Class_delete_generalization(gens, general[g], g)
                   ELSE gens
    IN Class_add_generalization(dropped, X, g)

\* Generalization.specific (setter), line 2114: specific == self.general.
SpecificSetterRaises(gen, Y) == Y = gen

\* Generalization.specific (setter), lines 2116-2119.
SpecificSetterBackRefs(gens, g, Y) ==
    LET dropped == IF hasattr_specific(g)
                   THEN Class_delete_generalization(gens, specific[g], g)
                   ELSE gens
    IN Class_add_generalization(dropped, Y, g)

\* Generalization.__init__, lines 2084-2085: self.general = general, then
\* self.specific = specific.  When the second assignment raises, the first
\* has already been made: the class X keeps the half-built object in its
\* generalizations, with no specific.
Generalization__init__(g, X, Y) ==
    /\ general[g] = NoClass
    /\ general' = [general EXCEPT ![g] = X]
    /\ IF SpecificSetterRaises(X, Y)
       THEN /\ generalizations' = GeneralSetterBackRefs(generalizations, g, X)
            /\ UNCHANGED specific
            /\ last' = Call("Generalization", g, <<X, Y>>, TRUE)
       ELSE /\ generalizations' =
                  SpecificSetterBackRefs(
                      GeneralSetterBackRefs(generalizations, g, X), g, Y)
            /\ specific' = [specific EXCEPT ![g] = Y]
            /\ last' = Call("Generalization", g, <<X, Y>>, FALSE)
    /\ UNCHANGED <<assoc_vars, prop_owner, mult_vars, class_vars, enum_vars, model_vars, element_vars>>

\* g.general = X on a Generalization object that exists, the half-built
\* object of a rejected constructor included (it is reachable through
\* Class.generalizations, line 1840).
GeneralSetter(g, X) ==
    /\ hasattr_general(g)
    /\ generalizations' = GeneralSetterBackRefs(generalizations, g, X)
    /\ general' = [general EXCEPT ![g] = X]
    /\ last' = Call("general", g, <<X>>, FALSE)
    /\ UNCHANGED <<specific, assoc_vars, prop_owner, mult_vars, class_vars, enum_vars, model_vars, element_vars>>

\* g.specific = Y on a Generalization object that exists, the half-built
\* object of a rejected constructor included.
SpecificSetter(g, Y) ==
    /\ hasattr_general(g)
    /\ IF SpecificSetterRaises(general[g], Y)
       THEN /\ last' = Call("specific", g, <<Y>>, TRUE)
            /\ UNCHANGED <<specific, generalizations>>
       ELSE /\ generalizations' = SpecificSetterBackRefs(generalizations, g, Y)
            /\ specific' = [specific EXCEPT ![g] = Y]
            /\ last' = Call("specific", g, <<Y>>, FALSE)
    /\ UNCHANGED <<general, assoc_vars, prop_owner, mult_vars, class_vars, enum_vars, model_vars, element_vars>>

\* The result of a query: a set of classes, or the AttributeError that
\* reading an unset field raises.
Returns(S) == [raised |-> FALSE, value |-> S]
AttributeError == [raised |-> TRUE, value |-> {}]

\* Class.parents, lines 1880-1886.  general is set on every generalization a
\* class holds, so the loop never fails.
parents(c) ==
    Returns({general[g] : g \in {h \in generalizations[c] : general[h] # c}})

\* Class.specializations, lines 1896-1902: reads generalization.specific of
\* every generalization the class holds, set or not.
specializations(c) ==
    IF \E g \in generalizations[c] : specific[g] = NoClass
    THEN AttributeError
    ELSE Returns({specific[g] : g \in {h \in generalizations[c] : specific[h] # c}})

\* The RecursionError with which the interpreter ends a recursion that
\* never returns.
RecursionError == [raised |-> TRUE, value |-> {}]

RECURSIVE all_parents_from(_, _)
\* Class.all_parents, lines 1890-1894, called with the classes in stack
\* already on the call stack.  The state does not change during the call, so
\* a call on a class that is on the stack repeats its caller's call without
\* end: the recursion is unbounded and ends in a RecursionError.
all_parents_from(c, stack) ==
    IF c \in stack THEN RecursionError
    ELSE LET direct == parents(c).value
             indirect == {all_parents_from(p, stack \cup {c}) : p \in direct}
         IN IF \E r \in indirect : r.raised THEN RecursionError
            ELSE Returns(direct \cup UNION {r.value : r \in indirect})

\* Class.all_parents, lines 1888-1894.
all_parents(c) == all_parents_from(c, {})

RECURSIVE all_specializations_from(_, _)
\* Class.all_specializations, lines 1906-1910, in the same way.
all_specializations_from(c, stack) ==
    IF c \in stack THEN RecursionError
    ELSE IF specializations(c).raised THEN AttributeError
    ELSE LET direct == specializations(c).value
             indirect == {all_specializations_from(s, stack \cup {c}) : s \in direct}
         IN IF \E r \in indirect : r.raised THEN RecursionError
            ELSE Returns(direct \cup UNION {r.value : r \in indirect})

\* Class.all_specializations, lines 1904-1910.
all_specializations(c) == all_specializations_from(c, {})

(***************************************************************************)
(* DomainModel.classes_sorted_by_inheritance.  The sets that the method    *)
(* iterates have no order: each operator below yields the set of the       *)
(* outcomes of all the orders of iteration.                                *)
(***************************************************************************)

\* DomainModel.get_classes, lines 2547-2549: the types that are classes.
get_classes == model_classes

\* Line 2570 reads child_map[generalization.general]; the keys of child_map
\* are the classes of the model (line 2566), and a general class that is
\* none of them raises KeyError.
child_map_KeyError ==
    \E cl \in get_classes : \E g \in generalizations[cl] : general[g] \notin get_classes

\* Lines 2566-2570: child_map[generalization.general].add(cl) for every
\* generalization that a class cl holds, those where cl is the general too.
child_map ==
    [c \in get_classes |->
        {cl \in get_classes : \E g \in generalizations[cl] : general[g] = c}]

\* The state of the traversal: the classes visited and the list built.
Traversal(visited, sorted_list) ==
    [visited |-> visited, sorted_list |-> sorted_list]

RECURSIVE dfs(_, _, _), ForEachUnvisited(_, _, _)
\* dfs, lines 2573-2578: mark cl, descend into the children that are not
\* visited when their turn comes, then append cl.
dfs(cl, visited, sorted_list) ==
    {Traversal(r.visited, Append(r.sorted_list, cl)) :
        r \in ForEachUnvisited(child_map[cl], visited \cup {cl}, sorted_list)}

\* "for x in todo: if x not in visited: dfs(x, visited, sorted_list)", lines
\* 2575-2577 and 2583-2585, with the elements of todo taken in any order.
\* An element that is visited already is skipped whenever its turn comes, so
\* only the turns of the others tell the orders apart.
ForEachUnvisited(todo, visited, sorted_list) ==
    LET open == todo \ visited
    IN IF open = {} THEN {Traversal(visited, sorted_list)}
       ELSE UNION {
              UNION {ForEachUnvisited(open \ {x}, r.visited, r.sorted_list) :
                        r \in dfs(x, visited, sorted_list)} :
              x \in open}

\* list.reverse(), line 2586.
Reverse(s) == [i \in 1..Len(s) |-> s[Len(s) + 1 - i]]

\* A faulty sort that runs the traversal from one class only.
classes_sorted_by_inheritance_OneRoot ==
    {Reverse(r.sorted_list) : r \in UNION {dfs(cl, {}, <<>>) : cl \in get_classes}}

\* DomainModel.classes_sorted_by_inheritance, lines 2564-2587: the lists
\* that the method can return in the current state; none when it raises.
classes_sorted_by_inheritance ==
    IF child_map_KeyError THEN {}
    ELSE {Reverse(r.sorted_list) : r \in ForEachUnvisited(get_classes, {}, <<>>)}

(***************************************************************************)
(* Multiplicity                                                            *)
(***************************************************************************)
UNLIMITED_MAX_MULTIPLICITY == 9999

\* The values a caller passes as max_multiplicity: an int or a str.
IntArg(n) == [int |-> TRUE, n |-> n, s |-> ""]
StrArg(s) == [int |-> FALSE, n |-> 0, s |-> s]
MinArgs == -1..MaxValue
MaxArgs == {IntArg(n) : n \in -1..MaxValue} \cup {StrArg("*"), StrArg("n")}

\* Multiplicity.min (setter), line 773: the only check is on the sign.
MinSetterRaises(v) == v < 0

\* A faulty max setter that takes every string for "*".
MaxSetterRaises_AnyString(cur_min, arg) == arg.int /\ (arg.n < 0 \/ arg.n < cur_min)

\* Multiplicity.max (setter), lines 812-837, against the current minimum.
MaxSetterRaises(cur_min, arg) ==
    IF arg.int THEN arg.n < 0 \/ arg.n < cur_min
    ELSE arg.s # "*"

\* The value the max setter stores, lines 822 and 829.
MaxSetterValue(arg) == IF arg.int THEN arg.n ELSE UNLIMITED_MAX_MULTIPLICITY

\* Multiplicity.__init__, lines 740-743: self.min = lo, then self.max = hi.
\* When either assignment raises, no object results.
Multiplicity__init__(m, lo, hi) ==
    /\ m \notin multiplicities
    /\ IF MinSetterRaises(lo) \/ MaxSetterRaises(lo, hi)
       THEN /\ last' = Call("Multiplicity", m, <<IntArg(lo), hi>>, TRUE)
            /\ UNCHANGED mult_vars
       ELSE /\ multiplicities' = multiplicities \cup {m}
            /\ min' = [min EXCEPT ![m] = lo]
            /\ max' = [max EXCEPT ![m] = MaxSetterValue(hi)]
            /\ last' = Call("Multiplicity", m, <<IntArg(lo), hi>>, FALSE)
    /\ UNCHANGED <<assoc_vars, prop_owner, gen_vars, class_vars, enum_vars, model_vars, element_vars>>

\* m.min = v on a multiplicity that exists.
MinSetter(m, v) ==
    /\ m \in multiplicities
    /\ IF MinSetterRaises(v)
       THEN /\ last' = Call("min", m, <<IntArg(v)>>, TRUE)
            /\ UNCHANGED min
       ELSE /\ min' = [min EXCEPT ![m] = v]
            /\ last' = Call("min", m, <<IntArg(v)>>, FALSE)
    /\ UNCHANGED <<multiplicities, max, assoc_vars, prop_owner, gen_vars, class_vars, enum_vars, model_vars, element_vars>>

\* m.max = arg on a multiplicity that exists.
MaxSetter(m, arg) ==
    /\ m \in multiplicities
    /\ IF MaxSetterRaises(min[m], arg)
       THEN /\ last' = Call("max", m, <<arg>>, TRUE)
            /\ UNCHANGED max
       ELSE /\ max' = [max EXCEPT ![m] = MaxSetterValue(arg)]
            /\ last' = Call("max", m, <<arg>>, FALSE)
    /\ UNCHANGED <<multiplicities, min, assoc_vars, prop_owner, gen_vars, class_vars, enum_vars, model_vars, element_vars>>

(***************************************************************************)
(* Class: attributes and methods                                           *)
(*                                                                         *)
(* Class.__attributes and Class.__methods are references to Python set     *)
(* objects: the setters store the object the caller passes (lines 1672 and *)
(* 1727) and add_attribute / add_method change it in place (lines 1777 and *)
(* 1755), so two fields that hold one object change together.  attributes  *)
(* and methods give the set object of each class and elements gives the    *)
(* members of each set object.  The fields are numbered, 2c - 1 for the    *)
(* attributes and 2c for the methods of class c, and a set object is       *)
(* named by the first field that holds it; the last two numbers name the   *)
(* sets that the caller of one call has built and that no class holds yet. *)
(* A set object that no class holds has no place in the state, and its     *)
(* elements are written as {}.                                             *)
(*                                                                         *)
(* Property p carries the name PropName(p): properties 1 and 2 share a     *)
(* name, 3 and 4 share another, and the odd ones were constructed marked   *)
(* as identifiers.  Method m carries the name MethodName(m), and a method  *)
(* has no is_id.  Names are strings of one kind: method m and property m   *)
(* have the same name.                                                     *)
(***************************************************************************)
Members == {Property_(p) : p \in PropObjects} \cup {Method_(m) : m \in Methods}
PropName(p) == (p + 1) \div 2
MethodName(m) == (m + 1) \div 2

\* member.name of a Property or of a Method.
MemberName(x) == IF x[1] = "Property" THEN PropName(x[2]) ELSE MethodName(x[2])

\* The set objects that some class holds as its attributes or its methods.
Referenced(a, m) ==
    ({a[c] : c \in AllClasses} \cup {m[c] : c \in AllClasses}) \ {None}

\* set(), and any set object that the caller has built: an object that no
\* class holds.
NewSet == 2 * (MaxClasses + MaxAssocClasses) + 1

\* A second one, made during the same call.
SecondNewSet == NewSet + 1

\* The set object o with the elements S is one that a caller can pass: a
\* set that some class holds, with the elements it has, or a set of the
\* caller's own.
SetArgument(o, S) ==
    IF o \in Referenced(attributes, methods) THEN S = elements[o] ELSE o = NewSet

\* What field k holds when the classes hold the set objects a and m.
FieldValue(a, m, k) == IF k % 2 = 1 THEN a[(k + 1) \div 2] ELSE m[k \div 2]

\* The name of the set object o: the first field that holds it.
NameOf(a, m, o) ==
    CHOOSE k \in Slots :
        /\ FieldValue(a, m, k) = o
        /\ \A j \in 1..(k - 1) : FieldValue(a, m, j) # o

\* The fields a (or m) with every set object they hold written by its name.
Named(f, a, m) ==
    [c \in AllClasses |-> IF f[c] = None THEN None ELSE NameOf(a, m, f[c])]

\* The elements e of the set objects, each written by its name, once the
\* classes hold the set objects a and m.
Collected(e, a, m) ==
    [k \in SetObjects |->
        IF /\ k \in Slots
           /\ FieldValue(a, m, k) # None
           /\ \A j \in 1..(k - 1) : FieldValue(a, m, j) # FieldValue(a, m, k)
        THEN e[FieldValue(a, m, k)]
        ELSE {}]

\* "member.owner = self" for every Property of S (Property.owner, lines
\* 1000-1005, accepts a Class).
OwnersOfProperties(S, owner) ==
    [p \in PropObjects |-> IF Property_(p) \in S THEN owner ELSE prop_owner[p]]

\* "member.owner = self" for every Method of S (Method.owner, lines
\* 1462-1467, accepts a Class).
OwnersOfMethods(S, owner) ==
    [m \in Methods |-> IF Method_(m) \in S THEN owner ELSE method_owner[m]]

\* Class.attributes (setter), lines 1643-1651: the names met more than once.
AttributeDuplicates(S) ==
    {MemberName(x) : x \in {y \in S : \E z \in S : z # y /\ MemberName(z) = MemberName(y)}}

\* Class.attributes (setter), lines 1654-1655: the members marked as 'id'.
id_counter(S) == Cardinality({x \in S : x[1] = "Property" /\ is_id[x[2]]})

\* Class.attributes (setter), line 1654: "attribute.is_id" raises
\* AttributeError on a member that is a Method.
AttributesSetterAttributeError(S) == \E x \in S : x[1] # "Property"

\* A faulty attributes setter that omits the count of the identifiers.
AttributesSetterRaises_NoIdCheck(S) ==
    AttributesSetterAttributeError(S) \/ AttributeDuplicates(S) # {}

\* Class.attributes (setter), lines 1648-1667.
AttributesSetterRaises(S) ==
    AttributesSetterAttributeError(S) \/ AttributeDuplicates(S) # {} \/ id_counter(S) > 1

\* c.attributes = o, where the set object o has the elements S, lines
\* 1641-1672 (Class.__init__ assigns the same way).  attributes = None
\* stores set(), as a set of the caller's own with S = {} does.
AttributesSetter(c, o, S) ==
    /\ attributes[c] # None
    /\ SetArgument(o, S)
    /\ IF AttributesSetterRaises(S)
       THEN /\ last' = Call("attributes", c, <<o, S>>, TRUE)
            /\ UNCHANGED <<attributes, methods, elements, prop_owner>>
       ELSE /\ prop_owner' = OwnersOfProperties(S, ClassOwner(c))
            /\ LET a == [attributes EXCEPT ![c] = o]
               IN /\ attributes' = Named(a, a, methods)
                  /\ methods' = Named(methods, a, methods)
                  /\ elements' = Collected([elements EXCEPT ![o] = S], a, methods)
            /\ last' = Call("attributes", c, <<o, S>>, FALSE)
    /\ UNCHANGED <<method_owner, member_kind,
                   assoc_vars, gen_vars, mult_vars, enum_vars, model_vars, element_vars>>

\* A faulty add_attribute that looks for the object, not for its name.
AddAttributeRaises_ByIdentity(held, p) == Property_(p) \in held

\* Class.add_attribute, line 1772: the name is among the names held.
AddAttributeRaises(held, p) == PropName(p) \in {MemberName(x) : x \in held}

\* Class.add_attribute, lines 1771-1777: self.attributes.add(attribute)
\* changes the set object that the class holds.
add_attribute(c, p) ==
    /\ attributes[c] # None
    /\ IF AddAttributeRaises(elements[attributes[c]], p)
       THEN /\ last' = Call("add_attribute", c, Property_(p), TRUE)
            /\ UNCHANGED <<elements, prop_owner>>
       ELSE /\ prop_owner' = [prop_owner EXCEPT ![p] = ClassOwner(c)]
            /\ elements' = [elements EXCEPT ![attributes[c]] = @ \cup {Property_(p)}]
            /\ last' = Call("add_attribute", c, Property_(p), FALSE)
    /\ UNCHANGED <<attributes, methods, method_owner, member_kind,
                   assoc_vars, gen_vars, mult_vars, enum_vars, model_vars, element_vars>>

\* Class.methods (setter), lines 1709-1722: some name is met more than once.
MethodsSetterRaises(S) ==
    \E x \in S : \E y \in S : y # x /\ MemberName(y) = MemberName(x)

\* c.methods = o, where the set object o has the elements S, lines
\* 1707-1731.
MethodsSetter(c, o, S) ==
    /\ methods[c] # None
    /\ SetArgument(o, S)
    /\ IF MethodsSetterRaises(S)
       THEN /\ last' = Call("methods", c, <<o, S>>, TRUE)
            /\ UNCHANGED <<attributes, methods, elements, prop_owner, method_owner>>
       ELSE /\ prop_owner' = OwnersOfProperties(S, ClassOwner(c))
            /\ method_owner' = OwnersOfMethods(S, ClassOwner(c))
            /\ LET m == [methods EXCEPT ![c] = o]
               IN /\ attributes' = Named(attributes, attributes, m)
                  /\ methods' = Named(m, attributes, m)
                  /\ elements' = Collected([elements EXCEPT ![o] = S], attributes, m)
            /\ last' = Call("methods", c, <<o, S>>, FALSE)
    /\ UNCHANGED <<member_kind,
                   assoc_vars, gen_vars, mult_vars, enum_vars, model_vars, element_vars>>

\* Class.add_method, line 1750.
AddMethodRaises(held, m) == MethodName(m) \in {MemberName(x) : x \in held}

\* Class.add_method, lines 1749-1755: self.methods.add(method) changes the
\* set object that the class holds.
add_method(c, m) ==
    /\ methods[c] # None
    /\ IF AddMethodRaises(elements[methods[c]], m)
       THEN /\ last' = Call("add_method", c, Method_(m), TRUE)
            /\ UNCHANGED <<elements, method_owner>>
       ELSE /\ method_owner' = [method_owner EXCEPT ![m] = ClassOwner(c)]
            /\ elements' = [elements EXCEPT ![methods[c]] = @ \cup {Method_(m)}]
            /\ last' = Call("add_method", c, Method_(m), FALSE)
    /\ UNCHANGED <<attributes, methods, prop_owner, member_kind,
                   assoc_vars, gen_vars, mult_vars, enum_vars, model_vars, element_vars>>

\* Class.id_attribute, lines 1914-1917: the first attribute marked as 'id'
\* that the iteration over the set meets, or None; "attribute.is_id" raises
\* AttributeError on a Method.  The set has no order, so every marked
\* attribute is a possible result, and so is the failure when the set holds
\* a Method.  A result is <<"returns", p>> or <<"raises", None>>.
id_attribute(c) ==
    LET held == elements[attributes[c]]
        marked == {x \in held : x[1] = "Property" /\ is_id[x[2]]}
    IN {<<"returns", x[2]>> : x \in marked}
       \cup (IF \E x \in held : x[1] # "Property" THEN {<<"raises", None>>} ELSE {})
       \cup (IF marked = {} /\ \A x \in held : x[1] = "Property"
             THEN {<<"returns", None>>} ELSE {})

\* A faulty inherited_attributes that stops at the direct parents.
inherited_attributes_DirectOnly(c) ==
    Returns(UNION {elements[attributes[p]] : p \in parents(c).value})

\* Class.inherited_attributes, lines 1854-1857: the attributes of every
\* class of all_parents(); the failure of all_parents() is its own.
inherited_attributes(c) ==
    IF all_parents(c).raised THEN all_parents(c)
    ELSE Returns(UNION {elements[attributes[p]] : p \in all_parents(c).value})

\* Class.all_attributes, lines 1759-1760: self.__attributes | inherited.
all_attributes(c) ==
    IF inherited_attributes(c).raised THEN inherited_attributes(c)
    ELSE Returns(elements[attributes[c]] \cup inherited_attributes(c).value)

(***************************************************************************)
(* NamedElement: the timestamp.  The constructor reads two clocks, one     *)
(* after the other: the wall clock (datetime.now(), in microseconds) and   *)
(* the performance counter (time.perf_counter_ns(), in nanoseconds).  The  *)
(* model keeps the last reading of each; a timestamp is a number of        *)
(* microseconds.                                                           *)
(***************************************************************************)

\* The nanoseconds between two readings of the performance counter by
\* consecutive constructions.
Elapsed == {2000, 30000, 450000, 999000}

\* The microseconds between two readings of the wall clock by consecutive
\* constructions.  The two clocks are read one after the other (lines 77
\* and 78) and a pause of any length can fall between two readings, so the
\* advance of one clock does not bound the advance of the other; the wall
\* clock is the local time of the system, which an adjustment sets back.
WallElapsed == {-22922, 0, 2, 16, 139, 450, 6199}

\* datetime.now(), line 77: the readings that the wall clock can give when
\* its last reading was n, whatever the advance d of the performance
\* counter.  The reading is the naive local time, which is not monotonic:
\* it can be any instant, before n as well as after it.
datetime_now(n, d) == Int

\* time.perf_counter_ns(), line 78: d nanoseconds after the reading t.
perf_counter_ns(t, d) == t + d

\* timedelta(microseconds=ns / 1000), line 78: a timedelta holds whole
\* microseconds and rounds a fraction to the nearest one, a half to even.
timedelta_microseconds(ns) ==
    LET q == ns \div 1000
        r == ns % 1000
    IN IF r > 500 \/ (r = 500 /\ q % 2 = 1) THEN q + 1 ELSE q

\* lines 74-79: datetime.now() + timedelta(microseconds=
\* (time.perf_counter_ns() % 1_000_000) / 1000), for the readings n and t.
DefaultTimestamp(n, t) == n + timedelta_microseconds(t % 1000000)

\* The timestamps that a caller passes explicitly.
ExplicitTimestamps == {500}

\* NamedElement(name, timestamp), lines 69-85.  With timestamp = None the
\* constructor reads the clocks, d nanoseconds after the previous reading
\* of the performance counter and with the wall clock at n; with a
\* timestamp it stores it and reads no clock.
NamedElement__init__(timestamp, d, n) ==
    /\ Len(timestamps) < MaxElements
    /\ IF timestamp = None
       THEN /\ n \in datetime_now(now, d)
            /\ now' = n
            /\ time' = perf_counter_ns(time, d)
            /\ timestamps' = Append(timestamps, DefaultTimestamp(now', time'))
       ELSE /\ timestamps' = Append(timestamps, timestamp)
            /\ UNCHANGED <<now, time>>
    /\ last' = Call("NamedElement", Len(timestamps) + 1, <<timestamp>>, FALSE)
    /\ UNCHANGED <<except_clock_vars, assoc_vars, prop_owner, gen_vars, mult_vars,
                   class_vars, enum_vars, model_vars>>

\* NamedElement.timestamp (setter), lines 123-133: stores the value, with
\* no check.
NamedElementTimestampSetter(x, timestamp) ==
    /\ x \in 1..Len(timestamps)
    /\ timestamps' = [timestamps EXCEPT ![x] = timestamp]
    /\ last' = Call("timestamp", x, <<timestamp>>, FALSE)
    /\ UNCHANGED <<now, time, except_clock_vars, assoc_vars, prop_owner, gen_vars,
                   mult_vars, class_vars, enum_vars, model_vars>>

(***************************************************************************)
(* Owners of properties, methods and enumeration literals                  *)
(***************************************************************************)

\* The objects a caller passes as an owner: None, a Class, an Association,
\* an Enumeration, a plain DataType and a PrimitiveDataType.
OwnerArgs ==
    {NoOwner, ClassOwner(1), AssociationOwner(1), EnumerationOwner(1),
     DataTypeOwner(1), PrimitiveDataTypeOwner(1)}

\* A faulty test that recognises the primitive data types only.
IsDataType_PrimitiveOnly(owner) == owner[1] = "PrimitiveDataType"

\* isinstance(owner, DataType), lines 1001 and 1463: DataType (line 251)
\* and its subclasses Enumeration (line 439) and PrimitiveDataType (line 271).
IsDataType(owner) == owner[1] \in {"DataType", "Enumeration", "PrimitiveDataType"}

\* isinstance(owner, PrimitiveDataType), line 420.
IsPrimitiveDataType(owner) == owner[1] = "PrimitiveDataType"

\* Property(name, type, owner, multiplicity), lines 955-961: "self.owner =
\* owner" raises before the object is returned, and then no Property exists;
\* otherwise "self.multiplicity = multiplicity" stores the object passed.  A
\* call without the argument passes DefaultMultiplicity: the default of the
\* parameter is the one Multiplicity(1, 1) made when line 941 was executed.
Property__init__(p, owner, mult) ==
    /\ member_kind = "Property"
    /\ Property_(p) \notin constructed
    /\ IF IsDataType(owner)
       THEN /\ last' = Call("Property", Property_(p), owner, TRUE)
            /\ UNCHANGED <<constructed, prop_owner, multiplicity>>
       ELSE /\ prop_owner' = [prop_owner EXCEPT ![p] = owner]
            /\ multiplicity' = [multiplicity EXCEPT ![p] = mult]
            /\ constructed' = constructed \cup {Property_(p)}
            /\ last' = Call("Property", Property_(p), owner, FALSE)
    /\ UNCHANGED <<except_owner_vars, assoc_vars, gen_vars, mult_vars, class_vars,
                   enum_vars, model_vars>>

\* p.owner = owner, lines 1000-1005.
PropertyOwnerSetter(p, owner) ==
    /\ member_kind = "Property"
    /\ Property_(p) \in constructed
    /\ IF IsDataType(owner)
       THEN /\ last' = Call("owner", Property_(p), owner, TRUE)
            /\ UNCHANGED prop_owner
       ELSE /\ prop_owner' = [prop_owner EXCEPT ![p] = owner]
            /\ last' = Call("owner", Property_(p), owner, FALSE)
    /\ UNCHANGED <<except_owner_vars, constructed, multiplicity, assoc_vars,
                   gen_vars, mult_vars, class_vars, enum_vars, model_vars>>

\* Method(name, owner=owner), lines 1313-1327.
Method__init__(m, owner) ==
    /\ member_kind = "Method"
    /\ Method_(m) \notin constructed
    /\ IF IsDataType(owner)
       THEN /\ last' = Call("Method", Method_(m), owner, TRUE)
            /\ UNCHANGED <<constructed, method_owner>>
       ELSE /\ method_owner' = [method_owner EXCEPT ![m] = owner]
            /\ constructed' = constructed \cup {Method_(m)}
            /\ last' = Call("Method", Method_(m), owner, FALSE)
    /\ UNCHANGED <<except_owner_vars, multiplicity, attributes, methods,
                   elements, member_kind, prop_owner,
                   assoc_vars, gen_vars, mult_vars, enum_vars, model_vars>>

\* m.owner = owner, lines 1462-1467.
MethodOwnerSetter(m, owner) ==
    /\ member_kind = "Method"
    /\ Method_(m) \in constructed
    /\ IF IsDataType(owner)
       THEN /\ last' = Call("owner", Method_(m), owner, TRUE)
            /\ UNCHANGED method_owner
       ELSE /\ method_owner' = [method_owner EXCEPT ![m] = owner]
            /\ last' = Call("owner", Method_(m), owner, FALSE)
    /\ UNCHANGED <<except_owner_vars, constructed, multiplicity, attributes,
                   methods, elements, member_kind, prop_owner,
                   assoc_vars, gen_vars, mult_vars, enum_vars, model_vars>>

\* EnumerationLiteral(name, owner), lines 387-391.
EnumerationLiteral__init__(l, owner) ==
    /\ member_kind = "EnumerationLiteral"
    /\ EnumerationLiteral_(l) \notin constructed
    /\ IF IsPrimitiveDataType(owner)
       THEN /\ last' = Call("EnumerationLiteral", EnumerationLiteral_(l), owner, TRUE)
            /\ UNCHANGED <<constructed, lit_owner>>
       ELSE /\ lit_owner' = [lit_owner EXCEPT ![l] = owner]
            /\ constructed' = constructed \cup {EnumerationLiteral_(l)}
            /\ last' = Call("EnumerationLiteral", EnumerationLiteral_(l), owner, FALSE)
    /\ UNCHANGED <<except_owner_vars, multiplicity, literals, prop_owner,
                   assoc_vars, gen_vars, mult_vars, class_vars, model_vars>>

\* l.owner = owner, lines 419-424.
EnumerationLiteralOwnerSetter(l, owner) ==
    /\ member_kind = "EnumerationLiteral"
    /\ EnumerationLiteral_(l) \in constructed
    /\ IF IsPrimitiveDataType(owner)
       THEN /\ last' = Call("owner", EnumerationLiteral_(l), owner, TRUE)
            /\ UNCHANGED lit_owner
       ELSE /\ lit_owner' = [lit_owner EXCEPT ![l] = owner]
            /\ last' = Call("owner", EnumerationLiteral_(l), owner, FALSE)
    /\ UNCHANGED <<except_owner_vars, constructed, multiplicity, literals,
                   prop_owner,
                   assoc_vars, gen_vars, mult_vars, class_vars, model_vars>>

(***************************************************************************)
(* Enumeration                                                             *)
(***************************************************************************)
LitName(l) == (l + 1) \div 2

\* Enumeration.literals (setter), lines 532-535: len(names) != len(set(names)).
LiteralsSetterRaises(L) ==
    Cardinality(L) # Cardinality({LitName(l) : l \in L})

\* e.literals = L, lines 530-543.  An Enumeration is no PrimitiveDataType,
\* so EnumerationLiteral.owner (setter) accepts it.
LiteralsSetter(e, L) ==
    /\ IF LiteralsSetterRaises(L)
       THEN /\ last' = Call("literals", e, L, TRUE)
            /\ UNCHANGED <<literals, lit_owner>>
       ELSE /\ lit_owner' = [l \in Lits |-> IF l \in L THEN EnumerationOwner(e)
                                           ELSE lit_owner[l]]
            /\ literals' = [literals EXCEPT ![e] = L]
            /\ last' = Call("literals", e, L, FALSE)
    /\ UNCHANGED <<assoc_vars, prop_owner, gen_vars, mult_vars, class_vars, model_vars, element_vars>>

\* Enumeration.add_literal, line 568.
AddLiteralRaises(held, l) == LitName(l) \in {LitName(k) : k \in held}

\* Enumeration.add_literal, lines 566-574: the literal is added to the set;
\* its owner is not assigned.
add_literal(e, l) ==
    /\ IF AddLiteralRaises(literals[e], l)
       THEN /\ last' = Call("add_literal", e, {l}, TRUE)
            /\ UNCHANGED literals
       ELSE /\ literals' = [literals EXCEPT ![e] = @ \cup {l}]
            /\ last' = Call("add_literal", e, {l}, FALSE)
    /\ UNCHANGED <<lit_owner, assoc_vars, prop_owner, gen_vars, mult_vars, class_vars, model_vars, element_vars>>

(***************************************************************************)
(* DomainModel: the collections of types, associations, packages and       *)
(* constraints of the one model object.  (Its generalizations are stored   *)
(* without any check and are left out.)                                    *)
(*                                                                         *)
(* A type is an object with a name: one of the eight PrimitiveDataType     *)
(* singletons of the module, or a type of the caller's, ModelType(t).  The *)
(* caller's types 1 and 2 share a name and type 3 has the name of a        *)
(* primitive.  Associations, packages and constraints 1 and 2 share a name.*)
(***************************************************************************)
PrimitiveDataType(n) == [primitive |-> TRUE, id |-> 0, name |-> n]

\* primitive_data_types, lines 327-336.
primitive_data_types ==
    {PrimitiveDataType(n) :
        n \in {"str", "int", "float", "bool", "time", "date", "datetime", "timedelta"}}

UserTypeName(t) ==
    LET names == <<"A", "A", "str", "B">> IN names[((t - 1) % Len(names)) + 1]

ModelType(t) == [primitive |-> FALSE, id |-> t, name |-> UserTypeName(t)]

\* What get_type_by_name returns when no type has the name: None.
NoType == [primitive |-> FALSE, id |-> 0, name |-> "None"]

ModelAssocName(a) == (a + 1) \div 2
PackageName(k) == (k + 1) \div 2
ConstraintName(k) == (k + 1) \div 2

\* A faulty candidate that leaves the primitive types out.
TypesSetterCandidate_NoPrimitives(T) == T

\* DomainModel.types (setter), line 2407: types = types | primitive_data_types.
TypesSetterCandidate(T) == T \cup primitive_data_types

\* A faulty check that compares the caller's types with each other only.
TypesSetterRaises_AmongGiven(T) ==
    \E x \in T, y \in T : x # y /\ x.name = y.name

\* DomainModel.types (setter), lines 2408-2419: a name met more than once in
\* the candidate.
TypesSetterRaises(T) ==
    \E x \in TypesSetterCandidate(T), y \in TypesSetterCandidate(T) :
        x # y /\ x.name = y.name

\* DomainModel.associations (setter), lines 2451-2462.
AssociationsSetterRaises(A) ==
    \E a \in A, b \in A : a # b /\ ModelAssocName(a) = ModelAssocName(b)

\* DomainModel.packages (setter), lines 2507-2518.
PackagesSetterRaises(P) ==
    \E k \in P, l \in P : k # l /\ PackageName(k) = PackageName(l)

\* DomainModel.constraints (setter), lines 2538-2539:
\* len(names) != len(set(names)).
ConstraintsSetterRaises(K) ==
    Cardinality(K) # Cardinality({ConstraintName(k) : k \in K})

\* DomainModel.__init__, lines 2381-2392: types, packages, constraints and
\* associations are assigned in turn; when one assignment raises no object
\* results.
DomainModel__init__(T, A, P, K) ==
    /\ ~model_constructed
    /\ IF \/ TypesSetterRaises(T) \/ PackagesSetterRaises(P)
          \/ ConstraintsSetterRaises(K) \/ AssociationsSetterRaises(A)
       THEN /\ last' = Call("DomainModel", 0, <<T, A, P, K>>, TRUE)
            /\ UNCHANGED model_vars
       ELSE /\ model_constructed' = TRUE
            /\ model_types' = TypesSetterCandidate(T)
            /\ model_packages' = P
            /\ model_constraints' = K
            /\ model_associations' = A
            /\ last' = Call("DomainModel", 0, <<T, A, P, K>>, FALSE)
    /\ UNCHANGED <<assoc_vars, prop_owner, gen_vars, mult_vars, class_vars, enum_vars, element_vars>>

\* The assignment self.types = T made under the name op: by the caller, or
\* by add_type with the union it has formed.
AssignTypes(op, arg, T) ==
    /\ model_constructed
    /\ IF TypesSetterRaises(T)
       THEN /\ last' = Call(op, 0, arg, TRUE)
            /\ UNCHANGED model_types
       ELSE /\ model_types' = TypesSetterCandidate(T)
            /\ last' = Call(op, 0, arg, FALSE)
    /\ UNCHANGED <<model_constructed, model_associations, model_packages, model_constraints,
                   assoc_vars, prop_owner, gen_vars, mult_vars, class_vars, enum_vars, element_vars>>

\* model.types = T, lines 2399-2420.
TypesSetter(T) == AssignTypes("types", T, T)

\* DomainModel.add_type, line 2435: self.types = self.types | {type_}.
add_type(x) == AssignTypes("add_type", {x}, model_types \cup {x})

\* DomainModel.get_type_by_name, lines 2424-2431: the first type of the name
\* that the iteration over the set meets, or None.
get_type_by_name(n) ==
    IF \E x \in model_types : x.name = n THEN {x \in model_types : x.name = n}
    ELSE {NoType}

\* The assignment self.associations = A made under the name op.
AssignAssociations(op, arg, A) ==
    /\ model_constructed
    /\ IF AssociationsSetterRaises(A)
       THEN /\ last' = Call(op, 0, arg, TRUE)
            /\ UNCHANGED model_associations
       ELSE /\ model_associations' = A
            /\ last' = Call(op, 0, arg, FALSE)
    /\ UNCHANGED <<model_constructed, model_types, model_packages, model_constraints,
                   assoc_vars, prop_owner, gen_vars, mult_vars, class_vars, enum_vars, element_vars>>

\* model.associations = A, lines 2450-2464.
ModelAssociationsSetter(A) == AssignAssociations("associations", A, A)

\* A faulty union that drops the associations held.
AddAssociationCandidate_Replace(held, a) == {a}

\* DomainModel.add_association, line 2470: self.associations | {association}.
AddAssociationCandidate(held, a) == held \cup {a}

\* DomainModel.add_association, lines 2468-2470.
add_association(a) ==
    AssignAssociations("add_association", {a}, AddAssociationCandidate(model_associations, a))

\* model.packages = P, lines 2506-2520.
PackagesSetter(P) ==
    /\ model_constructed
    /\ IF PackagesSetterRaises(P)
       THEN /\ last' = Call("packages", 0, P, TRUE)
            /\ UNCHANGED model_packages
       ELSE /\ model_packages' = P
            /\ last' = Call("packages", 0, P, FALSE)
    /\ UNCHANGED <<model_constructed, model_types, model_associations, model_constraints,
                   assoc_vars, prop_owner, gen_vars, mult_vars, class_vars, enum_vars, element_vars>>

\* model.constraints = K, lines 2537-2543.
ConstraintsSetter(K) ==
    /\ model_constructed
    /\ IF ConstraintsSetterRaises(K)
       THEN /\ last' = Call("constraints", 0, K, TRUE)
            /\ UNCHANGED model_constraints
       ELSE /\ model_constraints' = K
            /\ last' = Call("constraints", 0, K, FALSE)
    /\ UNCHANGED <<model_constructed, model_types, model_associations, model_packages,
                   assoc_vars, prop_owner, gen_vars, mult_vars, class_vars, enum_vars, element_vars>>

\* model.types = S for a set S of classes, lines 2407-2420.  The classes of
\* the pool have names of their own, so the set passes the check of the
\* names, and S | primitive_data_types is stored.
TypesSetterOfClasses(S) ==
    /\ model_constructed
    /\ model_classes' = S
    /\ model_types' = TypesSetterCandidate({})
    /\ last' = Call("types", 0, S, FALSE)
    /\ UNCHANGED <<model_constructed, model_associations, model_packages,
                   model_constraints, association_class, except_container_vars,
                   assoc_vars, prop_owner, gen_vars, mult_vars, class_vars, enum_vars>>

(***************************************************************************)
(* AssociationClass.  The values passed to and stored by the constructors  *)
(* are written as <Python type, number>: None, a bool, a datetime (number  *)
(* 0: the time of the call), a list of synonyms.                           *)
(***************************************************************************)
PyNone == [type |-> "NoneType", v |-> 0]
PyBool(b) == [type |-> "bool", v |-> IF b THEN 1 ELSE 0]
PyDatetime(n) == [type |-> "datetime", v |-> n]
PyList(n) == [type |-> "list", v |-> n]
TimestampArgs == {PyNone, PyDatetime(1), PyDatetime(2)}
SynonymsArgs == {PyNone, PyList(1), PyList(2)}

\* The fields of an AssociationClass object that does not exist.
NoAssociationClass ==
    [constructed |-> FALSE, timestamp |-> PyNone, synonyms |-> PyNone,
     is_abstract |-> PyNone, is_read_only |-> PyNone, association |-> None]

\* The owner that a constructor which raised has left in a member: the
\* object that was being constructed, which no variable holds.
DiscardedClass == ClassOwner(None)

\* Class.__init__(name, attributes, methods, is_abstract, is_read_only,
\* timestamp, synonyms), lines 1589-1601, after the attributes have been
\* assigned: NamedElement.__init__ stores the timestamp, or the time of the
\* call when it is None (lines 72-79), and the synonyms (line 82);
\* is_abstract and is_read_only are stored unchecked; the methods setter
\* (lines 1707-1731) stores set() when its argument is None and iterates it
\* otherwise, and a value that cannot be iterated raises TypeError.
Class__init__(methods_, is_abstract, is_read_only, timestamp, synonyms) ==
    [raised |-> methods_.type \notin {"NoneType", "set"},
     timestamp |-> IF timestamp = PyNone THEN PyDatetime(0) ELSE timestamp,
     synonyms |-> synonyms,
     is_abstract |-> is_abstract,
     is_read_only |-> is_read_only]

\* AssociationClass(name, attributes, association, timestamp, synonyms),
\* lines 2039-2048, where attributes is the set object o with the elements
\* S: super().__init__(name, attributes, timestamp, synonyms) passes
\* timestamp and synonyms by position, where Class.__init__ has methods and
\* is_abstract; is_read_only, timestamp and synonyms of the class take
\* their defaults.  Class.__init__ assigns the attributes (line 1598) and
\* then the methods (line 1601): when the methods setter raises, the
\* attributes have the discarded object as their owner.
AssociationClass__init__(x, o, S, association, timestamp, synonyms) ==
    /\ ~association_class[x].constructed
    /\ SetArgument(o, S)
    /\ LET c == AsClass(x)
           r == Class__init__(timestamp, synonyms, PyBool(FALSE), PyNone, PyNone)
           args == <<o, S, association, timestamp, synonyms>>
       IN IF AttributesSetterRaises(S)
          THEN /\ last' = Call("AssociationClass", x, args, TRUE)
               /\ UNCHANGED <<association_class, attributes, methods, elements,
                              prop_owner>>
          ELSE IF r.raised
          THEN /\ prop_owner' = OwnersOfProperties(S, DiscardedClass)
               /\ last' = Call("AssociationClass", x, args, TRUE)
               /\ UNCHANGED <<association_class, attributes, methods, elements>>
          ELSE /\ prop_owner' = OwnersOfProperties(S, ClassOwner(c))
               /\ LET a == [attributes EXCEPT ![c] = o]
                      m == [methods EXCEPT ![c] = SecondNewSet]
                  IN /\ attributes' = Named(a, a, m)
                     /\ methods' = Named(m, a, m)
                     /\ elements' = Collected([elements EXCEPT ![o] = S], a, m)
               /\ association_class' =
                     [association_class EXCEPT ![x] =
                         [constructed |-> TRUE, timestamp |-> r.timestamp,
                          synonyms |-> r.synonyms,
                          is_abstract |-> r.is_abstract,
                          is_read_only |-> r.is_read_only,
                          association |-> association]]
               /\ last' = Call("AssociationClass", x, args, FALSE)
    /\ UNCHANGED <<model_classes, except_container_vars, assoc_vars,
                   gen_vars, mult_vars, method_owner, member_kind, enum_vars,
                   model_vars>>

\* What every setter of an AssociationClass object leaves as it is.
AssociationClassSetterFrame ==
    UNCHANGED <<model_classes, except_container_vars, assoc_vars, prop_owner,
                gen_vars, mult_vars, class_vars, enum_vars, model_vars>>

\* NamedElement.timestamp (setter), lines 123-133, on an AssociationClass:
\* stores the value, with no check.
AssociationClassTimestampSetter(x, timestamp) ==
    /\ association_class[x].constructed
    /\ association_class' = [association_class EXCEPT ![x].timestamp = timestamp]
    /\ last' = Call("AssociationClass.timestamp", x, <<timestamp>>, FALSE)
    /\ AssociationClassSetterFrame

\* NamedElement.synonyms (setter), lines 147-157, on an AssociationClass:
\* stores the value, with no check.
AssociationClassSynonymsSetter(x, synonyms) ==
    /\ association_class[x].constructed
    /\ association_class' = [association_class EXCEPT ![x].synonyms = synonyms]
    /\ last' = Call("AssociationClass.synonyms", x, <<synonyms>>, FALSE)
    /\ AssociationClassSetterFrame

\* Class.is_abstract (setter), lines 1791-1801: stores the value, with no
\* check.
ClassIsAbstractSetter(x, is_abstract) ==
    /\ association_class[x].constructed
    /\ association_class' = [association_class EXCEPT ![x].is_abstract = is_abstract]
    /\ last' = Call("AssociationClass.is_abstract", x, <<is_abstract>>, FALSE)
    /\ AssociationClassSetterFrame

\* Class.is_read_only (setter), lines 1815-1825: stores the value, with no
\* check.
ClassIsReadOnlySetter(x, is_read_only) ==
    /\ association_class[x].constructed
    /\ association_class' = [association_class EXCEPT ![x].is_read_only = is_read_only]
    /\ last' = Call("AssociationClass.is_read_only", x, <<is_read_only>>, FALSE)
    /\ AssociationClassSetterFrame

\* AssociationClass.association (setter), lines 2055-2058: stores the
\* association, with no check.
AssociationClassAssociationSetter(x, association) ==
    /\ association_class[x].constructed
    /\ association_class' = [association_class EXCEPT ![x].association = association]
    /\ last' = Call("AssociationClass.association", x, <<association>>, FALSE)
    /\ AssociationClassSetterFrame

(***************************************************************************)
(* TypedElement: the type given to the constructor as a Type object or as  *)
(* a string.  A Type object is written as the record of its Python class   *)
(* (primitive or not), its number and its name.                            *)
(***************************************************************************)

\* TypedElement.type_mapping, lines 639-649.
TypedElement_type_mapping ==
    [n \in {"str", "string", "int", "float", "bool", "time", "date", "datetime",
            "timedelta"} |->
        PrimitiveDataType(IF n = "string" THEN "str" ELSE n)]

\* Type(name), lines 218-229: a new object.  The objects made by the
\* constructors are numbered after those a caller passes in.
Type(k, name) == [primitive |-> FALSE, id |-> MaxModelTypes + k, name |-> name]

\* The arguments a caller passes as 'type': a Type object, a string, or an
\* object that is neither.
TypeObject(t) == [kind |-> "Type", type |-> t, str |-> ""]
TypeString(n) == [kind |-> "str", type |-> NoType, str |-> n]
TypeOther == [kind |-> "other", type |-> NoType, str |-> ""]
TypedElementArgs ==
    {TypeObject(PrimitiveDataType("int")), TypeObject(ModelType(1)), TypeOther}
    \cup {TypeString(n) : n \in {"str", "string", "int", "Foo", "OclVoid"}}

\* A faulty resolution that hands out the Type an earlier element got for
\* the same string.
ResolveString_Shared(n) ==
    IF n \in DOMAIN type_mapping THEN type_mapping[n]
    ELSE IF \E y \in TypedElements : typed_type[y].name = n
         THEN typed_type[CHOOSE y \in TypedElements : typed_type[y].name = n]
         ELSE Type(types_created + 1, n)

\* lines 682-684: self.type_mapping[type] if type in self.type_mapping
\* else Type(type).
ResolveString(n) ==
    IF n \in DOMAIN type_mapping THEN type_mapping[n]
    ELSE Type(types_created + 1, n)

\* TypedElement(name, type), lines 670-687 (Property, Parameter and Method
\* construct through it; Method passes "OclVoid" for type = None, line 1315).
TypedElement__init__(x, arg) ==
    /\ typed_type[x] = NoType
    /\ CASE arg.kind = "Type" ->
              /\ typed_type' = [typed_type EXCEPT ![x] = arg.type]
              /\ UNCHANGED types_created
              /\ last' = Call("TypedElement", x, arg, FALSE)
         [] arg.kind = "str" ->
              /\ typed_type' = [typed_type EXCEPT ![x] = ResolveString(arg.str)]
              /\ types_created' = IF arg.str \in DOMAIN type_mapping
                                  THEN types_created ELSE types_created + 1
              /\ last' = Call("TypedElement", x, arg, FALSE)
         [] OTHER ->
              /\ UNCHANGED <<typed_type, types_created>>
              /\ last' = Call("TypedElement", x, arg, TRUE)
    /\ UNCHANGED <<type_mapping, except_typed_vars, assoc_vars, prop_owner,
                   gen_vars, mult_vars, class_vars, enum_vars, model_vars>>

\* x.type = t, TypedElement.type (setter), lines 701-711: stores the
\* object, with no check.
TypedElementTypeSetter(x, t) ==
    /\ typed_type[x] # NoType
    /\ typed_type' = [typed_type EXCEPT ![x] = t]
    /\ last' = Call("type", x, TypeObject(t), FALSE)
    /\ UNCHANGED <<types_created, type_mapping, except_typed_vars, assoc_vars,
                   prop_owner, gen_vars, mult_vars, class_vars, enum_vars,
                   model_vars>>

\* The state in which no association, generalization or multiplicity has
\* been constructed yet and every class and enumeration is as its constructor
\* leaves it when given no members.
InitElements(kind) ==
    /\ ends = [a \in AssocObjects |-> {}]
    /\ ends_list = [a \in AssocObjects |-> <<>>]
    /\ assoc_class = [a \in AssocObjects |-> "None"]
    /\ associations = [c \in Classes |-> {}]
    /\ type = [p \in Props |-> PropType(p)]
    /\ is_composite = [p \in Props |-> (p % 2) = 1]
    /\ is_id = [p \in PropObjects |-> (p % 2) = 1]
    /\ prop_owner = [p \in PropObjects |-> NoOwner]
    /\ general = [g \in Gens |-> NoClass]
    /\ specific = [g \in Gens |-> NoClass]
    /\ generalizations = [c \in Classes |-> {}]
    /\ multiplicities = {DefaultMultiplicity}
    /\ min = [m \in MultObjects |-> IF m = DefaultMultiplicity THEN 1 ELSE 0]
    /\ max = [m \in MultObjects |-> IF m = DefaultMultiplicity THEN 1 ELSE 0]
    /\ multiplicity = [p \in PropObjects |-> None]
    /\ attributes = [c \in AllClasses |-> IF c \in Classes THEN 2 * c - 1 ELSE None]
    /\ methods = [c \in AllClasses |-> IF c \in Classes THEN 2 * c ELSE None]
    /\ elements = [o \in SetObjects |-> {}]
    /\ method_owner = [m \in Methods |-> NoOwner]
    /\ member_kind = kind
    /\ literals = [e \in Enums |-> {}]
    /\ lit_owner = [l \in Lits |-> NoOwner]
    /\ constructed = {}
    /\ time = 0
    /\ now = 0
    /\ timestamps = <<>>
    /\ typed_type = [x \in TypedElements |-> NoType]
    /\ types_created = 0
    /\ type_mapping = TypedElement_type_mapping
    /\ association_class = [x \in AssocClasses |-> NoAssociationClass]
    /\ last = Call("init", 0, {}, FALSE)

\* No DomainModel has been constructed.
InitState(kind) ==
    /\ InitElements(kind)
    /\ model_constructed = FALSE
    /\ model_types = {}
    /\ model_classes = {}
    /\ model_associations = {}
    /\ model_packages = {}
    /\ model_constraints = {}

Init == InitState("attributes")

\* The state after DomainModel(name, types=S) for the set S of all the
\* classes of the pool, none of which has a generalization yet: the types
\* setter has stored S | primitive_data_types (line 2407).
InitModelOfClasses ==
    /\ InitElements("attributes")
    /\ model_constructed = TRUE
    /\ model_types = TypesSetterCandidate({})
    /\ model_classes = Classes
    /\ model_associations = {}
    /\ model_packages = {}
    /\ model_constraints = {}

\* The set objects that a caller can pass to a class of D: the sets it
\* reads from the classes of D, and a set of its own.
SetsOf(D) ==
    ({attributes[c] : c \in D} \cup {methods[c] : c \in D} \cup {NewSet}) \ {None}

\* The same, of the sets of attributes only.
AttributeSetsOf(D) == ({attributes[c] : c \in D} \cup {NewSet}) \ {None}

\* The sets of properties of P, and the sets of methods of M, that a caller
\* can build.
PropertySets(P) == {{Property_(p) : p \in T} : T \in SUBSET P}
MethodSets(M) == {{Method_(m) : m \in T} : T \in SUBSET M}

NextAssociation ==
    \/ \E a \in Assocs, E \in SUBSET Props : Association__init__(a, "Association", E)
    \/ \E a \in Assocs, E \in SUBSET Props : Association__init__(a, "BinaryAssociation", E)
    \/ \E a \in Assocs, E \in SUBSET Props : AssociationEndsSetter(a, E)

SpecAssociation == Init /\ [][NextAssociation]_vars

NextGeneralization ==
    \/ \E g \in Gens, X \in Classes, Y \in Classes : Generalization__init__(g, X, Y)
    \/ \E g \in Gens, X \in Classes : GeneralSetter(g, X)
    \/ \E g \in Gens, Y \in Classes : SpecificSetter(g, Y)

SpecGeneralization == InitModelOfClasses /\ [][NextGeneralization]_vars

\* The generalizations are constructed in the order of the pool (which
\* object comes first is immaterial) and their general class is reassigned.
NextInheritance ==
    \/ \E g \in Gens, X \in Classes, Y \in Classes :
          /\ \A h \in Gens : h < g => general[h] # NoClass
          /\ Generalization__init__(g, X, Y)
    \/ \E g \in Gens, X \in Classes : GeneralSetter(g, X)

SpecInheritance == InitModelOfClasses /\ [][NextInheritance]_vars

\* The classes receive their attributes, one by one or as the set that a
\* class of MemberClasses holds, and then a hierarchy is built with the constructor
\* and changed with the general setter.  The calls on attributes and the
\* calls on generalizations write different fields, so the states that any
\* other order of the calls reaches are reached in this order too.
NextAllAttributes ==
    \/ \E c \in Classes, p \in Attrs :
          /\ \A g \in Gens : general[g] = NoClass
          /\ add_attribute(c, p)
    \/ \E d \in MemberClasses : \E c \in Classes \ {d} :
          /\ \A g \in Gens : general[g] = NoClass
          /\ AttributesSetter(c, attributes[d], elements[attributes[d]])
    \/ \E g \in Gens, X \in Classes, Y \in Classes :
          /\ \A h \in Gens : h < g => general[h] # NoClass
          /\ Generalization__init__(g, X, Y)
    \/ \E g \in Gens, X \in Classes : GeneralSetter(g, X)

SpecAllAttributes == Init /\ [][NextAllAttributes]_vars

\* Several associations take their ends from one pool of properties, so
\* that a property can be given to more than one of them.
NextSharedEnds ==
    \/ \E a \in SharingAssocs, E \in SUBSET SharedProps : Association__init__(a, "Association", E)
    \/ \E a \in SharingAssocs, E \in SUBSET SharedProps : AssociationEndsSetter(a, E)

SpecSharedEnds == Init /\ [][NextSharedEnds]_vars

NextMultiplicity ==
    \/ \E m \in Mults, lo \in MinArgs, hi \in MaxArgs : Multiplicity__init__(m, lo, hi)
    \/ \E m \in Mults, v \in MinArgs : MinSetter(m, v)
    \/ \E m \in Mults, arg \in MaxArgs : MaxSetter(m, arg)

SpecMultiplicity == Init /\ [][NextMultiplicity]_vars

\* The attributes and the methods of classes are assigned and added to; an
\* assignment is given a set of the caller's own or a set that one of the
\* classes holds as its attributes or as its methods.
NextClass ==
    \/ \E c \in MemberClasses, o \in SetsOf(MemberClasses) :
          \E S \in PropertySets(Attrs) \cup {elements[o]} : AttributesSetter(c, o, S)
    \/ \E c \in MemberClasses, p \in Attrs : add_attribute(c, p)
    \/ \E c \in MemberClasses, o \in SetsOf(MemberClasses) :
          \E S \in MethodSets(Methods) \cup {elements[o]} : MethodsSetter(c, o, S)
    \/ \E c \in MemberClasses, m \in Methods : add_method(c, m)

SpecClass == Init /\ [][NextClass]_vars

\* Several classes receive their attributes from one pool of properties,
\* so that a property can be given to more than one of them.
NextOwnership ==
    \/ \E c \in OwnerClasses, o \in AttributeSetsOf(OwnerClasses) :
          \E S \in PropertySets(Attrs) \cup {elements[o]} : AttributesSetter(c, o, S)
    \/ \E c \in OwnerClasses, p \in Attrs : add_attribute(c, p)

SpecOwnership == Init /\ [][NextOwnership]_vars

\* The sets of types a caller passes: types of its own, with or without
\* one of the primitive singletons.
TypeArgs ==
    {{ModelType(t) : t \in S} \cup extra :
        S \in SUBSET ModelTypes, extra \in {{}, {PrimitiveDataType("str")}}}

\* The model is constructed with types and associations; its packages and
\* constraints are assigned afterwards.
NextDomainModel ==
    \/ \E T \in TypeArgs, A \in SUBSET ModelAssocs : DomainModel__init__(T, A, {}, {})
    \/ \E T \in TypeArgs : TypesSetter(T)
    \/ \E t \in ModelTypes : add_type(ModelType(t))
    \/ \E A \in SUBSET ModelAssocs : ModelAssociationsSetter(A)
    \/ \E a \in ModelAssocs : add_association(a)
    \/ \E P \in SUBSET Packages : PackagesSetter(P)
    \/ \E K \in SUBSET Constraints : ConstraintsSetter(K)

SpecDomainModel == Init /\ [][NextDomainModel]_vars

NextEnumeration ==
    \/ \E e \in Enums, L \in SUBSET Lits : LiteralsSetter(e, L)
    \/ \E e \in Enums, l \in Lits : add_literal(e, l)

SpecEnumeration == Init /\ [][NextEnumeration]_vars

\* The owners of the properties, of the methods and of the literals are
\* three separate fields, and no owner call on an element of one kind reads
\* or writes an element of another: a behaviour works on one kind.
InitOwner ==
    \E kind \in {"Property", "Method", "EnumerationLiteral"} : InitState(kind)

NextOwner ==
    \/ \E p \in Attrs, owner \in OwnerArgs :
          Property__init__(p, owner, DefaultMultiplicity)
    \/ \E p \in Attrs, owner \in OwnerArgs : PropertyOwnerSetter(p, owner)
    \/ \E m \in Methods, owner \in OwnerArgs : Method__init__(m, owner)
    \/ \E m \in Methods, owner \in OwnerArgs : MethodOwnerSetter(m, owner)
    \/ \E l \in Lits, owner \in OwnerArgs : EnumerationLiteral__init__(l, owner)
    \/ \E l \in Lits, owner \in OwnerArgs : EnumerationLiteralOwnerSetter(l, owner)

SpecOwner == InitOwner /\ [][NextOwner]_vars

NextTimestamp ==
    \/ \E d \in Elapsed, w \in WallElapsed : NamedElement__init__(None, d, now + w)
    \/ \E timestamp \in ExplicitTimestamps : NamedElement__init__(timestamp, 0, now)
    \/ \E x \in 1..MaxElements, timestamp \in ExplicitTimestamps :
          NamedElementTimestampSetter(x, timestamp)

SpecTimestamp == Init /\ [][NextTimestamp]_vars

\* The Type objects that a caller assigns: a primitive singleton, a type
\* of its own, and the type it reads from an element.
TypeSetterArgs ==
    {PrimitiveDataType("int"), ModelType(1)}
    \cup {typed_type[y] : y \in {z \in TypedElements : typed_type[z] # NoType}}

NextTypedElement ==
    \/ \E x \in TypedElements, arg \in TypedElementArgs : TypedElement__init__(x, arg)
    \/ \E x \in TypedElements, t \in TypeSetterArgs : TypedElementTypeSetter(x, t)

SpecTypedElement == Init /\ [][NextTypedElement]_vars

\* Attributes are added to a class one by one and removed from it again by
\* the assignment c.attributes = c.attributes - {p}.
NextRemoval ==
    \/ \E c \in MemberClasses, p \in RemovableAttrs : add_attribute(c, p)
    \/ \E c \in MemberClasses, p \in RemovableAttrs :
          /\ Property_(p) \in elements[attributes[c]]
          /\ AttributesSetter(c, NewSet, elements[attributes[c]] \ {Property_(p)})

SpecRemoval == Init /\ [][NextRemoval]_vars

\* Properties are constructed with the default multiplicity or with a
\* Multiplicity object of the caller, and the bounds of p.multiplicity are
\* reassigned.
NextDefaultMultiplicity ==
    \/ \E lo \in MinArgs, hi \in MaxArgs : Multiplicity__init__(1, lo, hi)
    \/ \E p \in Attrs, mult \in multiplicities : Property__init__(p, NoOwner, mult)
    \/ \E p \in Attrs, v \in MinArgs :
          multiplicity[p] # None /\ MinSetter(multiplicity[p], v)
    \/ \E p \in Attrs, arg \in MaxArgs :
          multiplicity[p] # None /\ MaxSetter(multiplicity[p], arg)

SpecDefaultMultiplicity == InitState("Property") /\ [][NextDefaultMultiplicity]_vars

\* An association or a binary association is constructed and then updated
\* by requests.
NextUpdateAssociation ==
    \/ \E cls \in {"Association", "BinaryAssociation"}, E \in SUBSET UpdateProps :
          Association__init__(1, cls, E)
    \/ \E req \in Requests : update_association(1, req)

SpecUpdateAssociation == Init /\ [][NextUpdateAssociation]_vars

\* Generalizations are constructed between the classes of the pool, and
\* the types of the model are assigned a set of these classes.
NextModelClasses ==
    \/ \E g \in Gens, X \in Classes, Y \in Classes :
          /\ \A h \in Gens : h < g => general[h] # NoClass
          /\ Generalization__init__(g, X, Y)
    \/ \E S \in SUBSET Classes : TypesSetterOfClasses(S)

SpecModelClasses == InitModelOfClasses /\ [][NextModelClasses]_vars

NextAssociationClass ==
    \/ \E x \in AssocClasses, S \in PropertySets(AssocClassAttrs),
          a \in SharingAssocs, timestamp \in TimestampArgs,
          synonyms \in SynonymsArgs :
             AssociationClass__init__(x, NewSet, S, a, timestamp, synonyms)
    \/ \E x \in AssocClasses, timestamp \in TimestampArgs \ {PyNone} :
          AssociationClassTimestampSetter(x, timestamp)
    \/ \E x \in AssocClasses, synonyms \in SynonymsArgs :
          AssociationClassSynonymsSetter(x, synonyms)
    \/ \E x \in AssocClasses, b \in BOOLEAN : ClassIsAbstractSetter(x, PyBool(b))
    \/ \E x \in AssocClasses, b \in BOOLEAN : ClassIsReadOnlySetter(x, PyBool(b))
    \/ \E x \in AssocClasses : \E o \in SetsOf({AsClass(x)}) :
          \E S \in MethodSets(AssocClassMethods) \cup {elements[o]} :
             MethodsSetter(AsClass(x), o, S)
    \/ \E x \in AssocClasses, m \in AssocClassMethods : add_method(AsClass(x), m)
    \/ \E x \in AssocClasses, a \in SharingAssocs :
          AssociationClassAssociationSetter(x, a)

SpecAssociationClass == Init /\ [][NextAssociationClass]_vars

(***************************************************************************)
(* Claims                                                                  *)
(***************************************************************************)

AssociationCalls == {"Association", "BinaryAssociation", "ends"}

\* The Python class of the receiver of an association call: the class being
\* constructed, or the class of the existing association.
ReceiverClass(call) ==
    IF call.op = "ends" THEN assoc_class[call.self] ELSE call.op

\* C1: a class holds an association in its associations exactly when one
\* of the association's current ends is typed by the class; so after the
\* ends are rewired, the classes of the old ends hold it only through a
\* new end, and the classes of the new ends hold it.
C1_AssociationBackReferences ==
    \A c \in Classes, a \in Assocs :
        a \in associations[c] <=> \E e \in ends[a] : type[e] = c

\* An association has been rewired from two ends typed by one class to two
\* ends typed by another: the first class has lost it, the second holds it.
C1_Witness ==
    \E a \in Assocs, e1, e2, e3, e4 \in Props :
        /\ last = Call("ends", a, {e3, e4}, FALSE)
        /\ e3 # e4 /\ e1 # e2 /\ {e1, e2} \cap {e3, e4} = {}
        /\ prop_owner[e1] = AssociationOwner(a) /\ prop_owner[e2] = AssociationOwner(a)
        /\ type[e1] = type[e2] /\ type[e3] = type[e4] /\ type[e1] # type[e3]
        /\ a \notin associations[type[e1]]
        /\ a \in associations[type[e3]]

\* C2: a class holds a generalization in its generalizations exactly when
\* it is the generalization's general or its specific class.
C2_GeneralizationBackReferences ==
    \A c \in Classes, g \in Gens :
        Constructed(g) => (g \in generalizations[c] <=> (c = general[g] \/ c = specific[g]))

\* C3: Generalization(general=X, specific=X) fails, and no generalization
\* that exists has its specific class equal to its general class.
C3_NoSelfGeneralization ==
    /\ (last.op = "Generalization" /\ last.arg[1] = last.arg[2]) => last.raised
    /\ \A g \in Gens : Constructed(g) => specific[g] # general[g]

GeneralizationCalls == {"Generalization", "general", "specific"}

\* C4: a Generalization call that fails leaves every class's
\* generalizations as they were, and with them the results of parents()
\* and specializations().
C4_FailedGeneralizationChangesNothing ==
    [][(last'.op \in GeneralizationCalls /\ last'.raised) =>
          /\ generalizations' = generalizations
          /\ \A c \in Classes : /\ parents(c)' = parents(c)
                                /\ specializations(c)' = specializations(c)]_vars

\* C5: every multiplicity that exists has min >= 0 and max >= min, whatever
\* assignments to min and to max have been made.
C5_MultiplicityBounds ==
    \A m \in multiplicities : min[m] >= 0 /\ max[m] >= min[m]

\* C6: a class has at most one attribute marked as an identifier, so
\* id_attribute() has one possible result, the identifier or None.
C6_AtMostOneIdentifier ==
    \A c \in Classes :
        /\ Cardinality({x \in elements[attributes[c]] :
                           x[1] = "Property" /\ is_id[x[2]]}) <= 1
        /\ Cardinality(id_attribute(c)) = 1
        /\ <<"raises", None>> \notin id_attribute(c)

\* C7: add_literal fails on a literal whose name the enumeration already
\* has and leaves the literals unchanged; otherwise it inserts the literal
\* and makes the enumeration its owner.
C7_AddLiteralSetsOwner ==
    [][last'.op = "add_literal" =>
          LET e == last'.self
              l == CHOOSE x \in last'.arg : TRUE
          IN IF \E k \in literals[e] : LitName(k) = LitName(l)
             THEN last'.raised /\ literals' = literals
             ELSE /\ ~last'.raised
                  /\ literals'[e] = literals[e] \cup {l}
                  /\ lit_owner'[l] = EnumerationOwner(e)]_vars

\* No two attributes and no two methods of a class share a name.
MemberNamesUnique ==
    \A c \in Classes :
        /\ \A x \in elements[attributes[c]], y \in elements[attributes[c]] :
               MemberName(x) = MemberName(y) => x = y
        /\ \A x \in elements[methods[c]], y \in elements[methods[c]] :
               MemberName(x) = MemberName(y) => x = y

\* The owner field of a member.
OwnerOf(po, mo, x) == IF x[1] = "Property" THEN po[x[2]] ELSE mo[x[2]]

\* What C8 says of one call of add_attribute or add_method: the collection
\* of that kind is the set object the class holds as its attributes or as
\* its methods.
AddMemberStep ==
    LET c == last'.self
        x == last'.arg
        o == IF last'.op = "add_attribute" THEN attributes[c] ELSE methods[c]
    IN /\ attributes' = attributes /\ methods' = methods
       /\ IF \E y \in elements[o] : MemberName(y) = MemberName(x)
          THEN /\ last'.raised
               /\ elements' = elements
               /\ prop_owner' = prop_owner /\ method_owner' = method_owner
          ELSE /\ ~last'.raised
               /\ elements'[o] = elements[o] \cup {x}
               /\ \A q \in SetObjects \ {o} : elements'[q] = elements[q]
               /\ OwnerOf(prop_owner', method_owner', x) = ClassOwner(c)

\* C8: add_attribute and add_method fail on a member whose name the class
\* already has among its members of that kind, changing neither the
\* members nor any owner; otherwise they insert the member and make the
\* class its owner; so the names of a class's attributes and of its
\* methods stay unique.
C8_AddMemberRejectsDuplicateName ==
    []MemberNamesUnique /\ [][last'.op \in {"add_attribute", "add_method"} => AddMemberStep]_vars

\* A class holds two attributes in one set and two methods in another;
\* add_method has rejected a method that the class does not hold and that
\* shares its name with a method of the class, and the method's owner is
\* not the class; an attribute of that name is no obstacle.
C8_Witness ==
    \E c \in MemberClasses, m \in Methods :
        /\ last = Call("add_method", c, Method_(m), TRUE)
        /\ attributes[c] # methods[c]
        /\ Cardinality(elements[attributes[c]]) = 2
        /\ Cardinality(elements[methods[c]]) = 2
        /\ Method_(m) \notin elements[methods[c]]
        /\ \E y \in elements[methods[c]] : MemberName(y) = MethodName(m)
        /\ \E y \in elements[attributes[c]] : MemberName(y) # MethodName(m)
        /\ method_owner[m] # ClassOwner(c)

\* After the call field k holds the set object that was o before it: the
\* other fields that held o, and no others, hold the object of field k, and
\* every other field has the elements it had.
Stored(k, o) ==
    \A j \in Slots \ {k} :
        /\ FieldValue(attributes, methods, j) = o
              <=> FieldValue(attributes', methods', j) = FieldValue(attributes', methods', k)
        /\ FieldValue(attributes, methods, j) # None =>
              /\ FieldValue(attributes', methods', j) # None
              /\ elements'[FieldValue(attributes', methods', j)]
                    = elements[FieldValue(attributes, methods, j)]

\* What C9 says of one assignment of attributes or methods, given the set
\* object o with the elements S.
SetMembersStep ==
    LET c == last'.self
        o == last'.arg[1]
        S == last'.arg[2]
        rejected == /\ last'.raised
                    /\ attributes' = attributes /\ methods' = methods
                    /\ elements' = elements
                    /\ prop_owner' = prop_owner /\ method_owner' = method_owner
    IN /\ last'.op = "attributes" =>
             IF \/ \E x \in S, y \in S : x # y /\ MemberName(x) = MemberName(y)
                \/ \E x \in S, y \in S :
                      /\ x # y /\ x[1] = "Property" /\ y[1] = "Property"
                      /\ is_id[x[2]] /\ is_id[y[2]]
                \/ \E x \in S : x[1] = "Method"
             THEN rejected
             ELSE /\ ~last'.raised
                  /\ Stored(2 * c - 1, o) /\ elements'[attributes'[c]] = S
                  /\ \A x \in S : OwnerOf(prop_owner', method_owner', x) = ClassOwner(c)
       /\ last'.op = "methods" =>
             IF \E x \in S, y \in S : x # y /\ MemberName(x) = MemberName(y)
             THEN rejected
             ELSE /\ ~last'.raised
                  /\ Stored(2 * c, o) /\ elements'[methods'[c]] = S
                  /\ \A x \in S : OwnerOf(prop_owner', method_owner', x) = ClassOwner(c)

\* C9: an assignment of attributes or methods whose candidate has two
\* members of one name (or, for attributes, two identifiers, or a member
\* that has no is_id) fails and changes neither the stored collections nor
\* any owner; any other assignment stores the candidate and makes the
\* class the owner of every member of it.
C9_BulkSetterAllOrNothing ==
    [][last'.op \in {"attributes", "methods"} => SetMembersStep]_vars

\* A class holds one set object as its attributes and as its methods, the
\* set has members, and an assignment of a candidate with two identifiers
\* of different names to the attributes was rejected.
C9_Witness ==
    \E c \in MemberClasses :
        /\ last.op = "attributes" /\ last.self = c /\ last.raised
        /\ attributes[c] = methods[c]
        /\ elements[attributes[c]] # {}
        /\ \A x \in last.arg[2], y \in last.arg[2] :
              MemberName(x) = MemberName(y) => x = y
        /\ \A x \in last.arg[2] : x[1] = "Property"
        /\ \E x \in last.arg[2], y \in last.arg[2] :
              x # y /\ is_id[x[2]] /\ is_id[y[2]]

\* C10: an ends assignment with fewer than two ends, or on a
\* BinaryAssociation with other than two ends or with two composite ends,
\* is rejected, and a rejected assignment changes no association's ends,
\* no end's owner and no class's associations.
C10_InvalidEndsRejected ==
    [][last'.op \in AssociationCalls =>
          LET E == last'.arg
              binary == ReceiverClass(last') = "BinaryAssociation"
              invalid == \/ Cardinality(E) < 2
                         \/ binary /\ Cardinality(E) # 2
                         \/ binary /\ Cardinality(E) = 2 /\ \A e \in E : is_composite[e]
          IN /\ invalid => last'.raised
             /\ last'.raised => UNCHANGED <<ends, prop_owner, associations>>]_vars

\* A binary association that has ends was assigned two composite ends, and
\* the assignment was rejected.
C10_Witness ==
    \E a \in Assocs :
        /\ assoc_class[a] = "BinaryAssociation" /\ ends[a] # {}
        /\ last.op = "ends" /\ last.self = a /\ last.raised
        /\ Cardinality(last.arg) = 2 /\ \A e \in last.arg : is_composite[e]

\* The class p is the general and the class c the specific class of some
\* generalization.
IsParent(p, c) ==
    \E g \in Gens : Constructed(g) /\ general[g] = p /\ specific[g] = c

RECURSIVE DescendantsWithin(_, _)
\* The classes reached from the classes of S in at most n steps down.
DescendantsWithin(S, n) ==
    IF n = 0 THEN S
    ELSE DescendantsWithin(S \cup {c \in Classes : \E p \in S : IsParent(p, c)}, n - 1)

\* The children of p, their children, and so on.
Descendants(p) ==
    DescendantsWithin({c \in Classes : IsParent(p, c)}, MaxClasses)

\* No class is among its own descendants.
Acyclic == \A c \in Classes : c \notin Descendants(c)

\* C11: when the generalizations form an acyclic graph, every list that
\* classes_sorted_by_inheritance() can return, whatever the order in which
\* the sets are iterated, has every class after each of its ancestors.
C11_ParentsPrecedeDescendants ==
    Acyclic =>
        \A r \in classes_sorted_by_inheritance :
            \A p \in Classes : \A c \in Descendants(p) :
                \E i \in 1..Len(r), j \in 1..Len(r) : i < j /\ r[i] = p /\ r[j] = c

\* C12: classes_sorted_by_inheritance() returns, and every list it can
\* return holds every class exactly once, whatever the generalizations,
\* a cycle of them included.
C12_SortReturnsEveryClassOnce ==
    LET returned == classes_sorted_by_inheritance
    IN /\ returned # {}
       /\ \A r \in returned :
              /\ Len(r) = Cardinality(Classes)
              /\ \A c \in Classes : Cardinality({i \in 1..Len(r) : r[i] = c}) = 1

\* Two classes are each the parent of the other, both hold both
\* generalizations, and the sort has a result.
C12_Witness ==
    \E g \in Gens, h \in Gens :
        /\ Constructed(g) /\ Constructed(h)
        /\ general[g] # specific[g]
        /\ general[h] = specific[g] /\ specific[h] = general[g]
        /\ {g, h} \subseteq generalizations[general[g]]
        /\ {g, h} \subseteq generalizations[specific[g]]
        /\ \E r \in classes_sorted_by_inheritance : Len(r) = Cardinality(Classes)

\* C13: all_parents() and all_specializations() return for every class,
\* whatever generalizations have been constructed and reassigned, a cycle of
\* them included.  (A class that holds a generalization whose constructor
\* failed is left aside: reading its specific class fails at once.)
C13_ClosuresTerminate ==
    \A c \in Classes :
        /\ ~all_parents(c).raised
        /\ (\A g \in Gens : general[g] # NoClass => specific[g] # NoClass)
              => ~all_specializations(c).raised

\* The general classes of the generalizations that the class c holds, the
\* class itself left aside: the classes one step up from c.
HeldParents(c) == {general[g] : g \in generalizations[c]} \ {c}

RECURSIVE AncestorsWithin(_, _)
\* The classes reached from the classes of S in at most n steps up.
AncestorsWithin(S, n) ==
    IF n = 0 THEN S
    ELSE AncestorsWithin(S \cup UNION {HeldParents(d) : d \in S}, n - 1)

\* The classes one or more steps up from c.
HeldAncestors(c) == AncestorsWithin(HeldParents(c), MaxClasses)

\* Every class holds exactly the generalizations of which it is the general
\* or the specific class.
BackReferencesAgree ==
    \A c \in Classes : \A g \in Gens :
        g \in generalizations[c] <=>
            (Constructed(g) /\ c \in {general[g], specific[g]})

\* C14: in an acyclic hierarchy all_attributes() of a class returns the
\* attributes of the class united with the attributes of every class above
\* it, and so holds the attributes of the class; attributes are kept apart
\* as objects, so two of one name both appear.  The classes above are those
\* reached along the generalizations the classes hold, which are the
\* ancestors in the graph of the generalizations where that graph is
\* acyclic and the two agree.
C14_AllAttributes ==
    (\A d \in Classes : d \notin HeldAncestors(d)) =>
        \A c \in Classes :
            /\ ~all_attributes(c).raised
            /\ elements[attributes[c]] \subseteq all_attributes(c).value
            /\ all_attributes(c).value =
                  {x \in Members :
                      \E d \in {c} \cup HeldAncestors(c) : x \in elements[attributes[d]]}
            /\ (BackReferencesAgree /\ Acyclic) =>
                  HeldAncestors(c) = {p \in Classes : c \in Descendants(p)}

\* A class has a parent and a grandparent; the class holds two attributes
\* and its grandparent holds a distinct attribute of the name of one of
\* them, and all_attributes() of the class holds all three.
C14_Witness ==
    \E c \in Classes, b \in Classes, a \in Classes :
        /\ Acyclic /\ IsParent(b, c) /\ IsParent(a, b) /\ ~IsParent(a, c)
        /\ Cardinality(elements[attributes[c]]) = 2
        /\ \E x \in elements[attributes[c]], y \in elements[attributes[a]] :
              /\ x # y /\ MemberName(x) = MemberName(y)
              /\ elements[attributes[c]] \cup {y} \subseteq all_attributes(c).value

\* An association of exactly two ends that are both typed by the class c.
IsSelfAssociation(a, c) ==
    Cardinality(ends[a]) = 2 /\ \A e \in ends[a] : type[e] = c

\* C15: association_ends() of a class returns the ends not typed by the
\* class of the associations the class holds, together with both ends of
\* each of its self-associations, and no end typed by the class of any
\* other association, whatever the order in which the associations are
\* iterated.
C15_AssociationEnds ==
    \A c \in Classes : \A returned \in association_ends(c) :
        /\ returned =
              {e \in UNION {ends[a] : a \in associations[c]} : type[e] # c}
              \cup UNION {ends[a] : a \in {b \in associations[c] : IsSelfAssociation(b, c)}}
        /\ \A a \in associations[c] :
              ~IsSelfAssociation(a, c) => \A e \in ends[a] : type[e] = c => e \notin returned

\* C16: no two types of the model share a name, no two of its associations,
\* no two of its packages and no two of its constraints.
C16_ModelNamesUnique ==
    model_constructed =>
        /\ \A x \in model_types, y \in model_types : x.name = y.name => x = y
        /\ \A a \in model_associations, b \in model_associations :
               ModelAssocName(a) = ModelAssocName(b) => a = b
        /\ \A k \in model_packages, l \in model_packages :
               PackageName(k) = PackageName(l) => k = l
        /\ \A k \in model_constraints, l \in model_constraints :
               ConstraintName(k) = ConstraintName(l) => k = l

\* The model holds a type of the caller's and two associations, and
\* add_type has just been refused a type of the caller's that has the name
\* of a primitive type.
C16_Witness ==
    /\ model_constructed
    /\ \E x \in model_types : ~x.primitive
    /\ Cardinality(model_associations) = 2
    /\ last.op = "add_type" /\ last.raised
    /\ \E x \in last.arg : ~x.primitive /\ x.name = "str"

ModelCalls ==
    {"DomainModel", "types", "add_type", "associations", "add_association",
     "packages", "constraints"}

\* What C17 says of one accepted call: the collection assigned holds the
\* whole candidate (for the types, the candidate with the primitive types
\* that the setter joins to it).
ModelCallAccepted ==
    LET arg == last'.arg
    IN /\ last'.op = "DomainModel" =>
             /\ model_types' = arg[1] \cup primitive_data_types
             /\ model_associations' = arg[2]
             /\ model_packages' = arg[3]
             /\ model_constraints' = arg[4]
       /\ last'.op = "types" => model_types' = arg \cup primitive_data_types
       /\ last'.op = "add_type" => model_types' = model_types \cup arg
       /\ last'.op = "associations" => model_associations' = arg
       /\ last'.op = "add_association" => model_associations' = model_associations \cup arg
       /\ last'.op = "packages" => model_packages' = arg
       /\ last'.op = "constraints" => model_constraints' = arg

\* C17: a model assignment that is rejected leaves every collection of the
\* model as it was; an accepted one stores the whole candidate (add_type
\* and add_association: the collection held united with the new element).
C17_ModelAssignmentAllOrNothing ==
    [][last'.op \in ModelCalls =>
          IF last'.raised
          THEN UNCHANGED <<model_types, model_associations,
                           model_packages, model_constraints>>
          ELSE ModelCallAccepted]_vars

\* The model holds two associations and add_association has been refused a
\* third, whose name one of them has; before that an association was added
\* to the one the model held.
C17_Witness ==
    /\ model_constructed
    /\ last.op = "add_association" /\ last.raised
    /\ Cardinality(model_associations) = 2
    /\ \E a \in last.arg :
          /\ a \notin model_associations
          /\ \E b \in model_associations : ModelAssocName(b) = ModelAssocName(a)

\* C18: the types of the model hold the eight primitive singletons, and
\* get_type_by_name of a primitive's name returns that singleton.
C18_PrimitivesRegistered ==
    model_constructed =>
        /\ primitive_data_types \subseteq model_types
        /\ Cardinality(primitive_data_types) = 8
        /\ \A x \in primitive_data_types : get_type_by_name(x.name) = {x}

\* The caller has assigned types of its own, no primitive among them, and
\* the assignment was accepted.
C18_Witness ==
    /\ model_constructed
    /\ last.op = "types" /\ ~last.raised
    /\ last.arg # {} /\ last.arg \cap primitive_data_types = {}
    /\ get_type_by_name("str") = {PrimitiveDataType("str")}

\* C19: every property among the attributes of a class has that class as
\* its owner, so that a property is held by one class only.
C19_AttributesOwnedByClass ==
    \A c \in Classes : \A x \in elements[attributes[c]] :
        x[1] = "Property" => prop_owner[x[2]] = ClassOwner(c)

\* C20: every end of every association has that association as its owner.
C20_EndsOwnedByAssociation ==
    \A a \in AssocObjects : \A e \in ends[a] : prop_owner[e] = AssociationOwner(a)

OwnerCalls == {"Property", "Method", "EnumerationLiteral", "owner"}

\* The owner a call of OwnerCalls may not assign: a DataType for a Property
\* or a Method, a PrimitiveDataType for an EnumerationLiteral.
ForbiddenOwner(call) ==
    IF call.self[1] = "EnumerationLiteral"
    THEN call.arg[1] = "PrimitiveDataType"
    ELSE call.arg[1] \in {"DataType", "Enumeration", "PrimitiveDataType"}

\* C21: no Property and no Method is ever owned by a DataType (Enumeration
\* and PrimitiveDataType included) and no EnumerationLiteral by a
\* PrimitiveDataType: an assignment of such an owner, at construction or
\* later, fails and leaves every owner as it was, and at construction no
\* element comes to exist.
C21_NoDataTypeOwner ==
    [][/\ \A p \in Props :
             prop_owner'[p][1] \notin {"DataType", "Enumeration", "PrimitiveDataType"}
       /\ \A m \in Methods :
             method_owner'[m][1] \notin {"DataType", "Enumeration", "PrimitiveDataType"}
       /\ \A l \in Lits : lit_owner'[l][1] # "PrimitiveDataType"
       /\ (last'.op \in OwnerCalls /\ ForbiddenOwner(last'))
             => /\ last'.raised
                /\ UNCHANGED <<prop_owner, method_owner, lit_owner, constructed>>
       /\ (last'.op \in OwnerCalls /\ ~ForbiddenOwner(last')) => ~last'.raised]_vars

\* A constructed property owned by a class has just refused an Enumeration
\* as its owner.
C21_Witness ==
    /\ last.op = "owner" /\ last.raised
    /\ last.self[1] = "Property" /\ last.self \in constructed
    /\ last.arg = EnumerationOwner(1)
    /\ prop_owner[last.self[2]] = ClassOwner(1)

\* C22: of two named elements constructed one after the other without an
\* explicit timestamp, between which the wall clock has not been set back,
\* the earlier one has the strictly smaller timestamp.
C22_TimestampsIncrease ==
    [][(/\ last.op = "NamedElement" /\ last.arg = <<None>>
        /\ last'.op = "NamedElement" /\ last'.arg = <<None>>
        /\ now' >= now)
          => timestamps[last.self] < timestamps'[last'.self]]_vars

\* C23: a typed element constructed with a string as its type gets the
\* registry singleton when the string names a primitive type (is a key of
\* the type mapping), and otherwise a new Type of that name which is no
\* primitive and no object that existed before; the construction succeeds
\* for every string and changes neither the mapping, the registry, nor the
\* type of any other element.
C23_StringTypeResolution ==
    [][(last'.op = "TypedElement" /\ last'.arg.kind = "str") =>
          LET x == last'.self
              n == last'.arg.str
              t == typed_type'[x]
          IN /\ ~last'.raised
             /\ IF n \in DOMAIN type_mapping
                THEN /\ t \in primitive_data_types
                     /\ t = type_mapping[n]
                     /\ \A y \in TypedElements :
                           (typed_type[y].primitive /\ typed_type[y].name = t.name)
                              => typed_type[y] = t
                ELSE /\ ~t.primitive /\ t.name = n
                     /\ t \notin primitive_data_types
                     /\ t \notin {ModelType(u) : u \in ModelTypes}
                     /\ \A y \in TypedElements : typed_type[y] # t
             /\ type_mapping' = type_mapping
             /\ \A y \in TypedElements \ {x} : typed_type'[y] = typed_type[y]]_vars

\* Two elements hold one Type named "Foo", which the second was assigned
\* through its type setter; a third has just been built from the string
\* "Foo", and holds another Type of that name.
C23_Witness ==
    /\ last.op = "TypedElement" /\ last.arg = TypeString("Foo") /\ ~last.raised
    /\ \E x \in TypedElements : \E y \in TypedElements :
          /\ x # y /\ x # last.self /\ y # last.self
          /\ typed_type[x].name = "Foo" /\ typed_type[x] = typed_type[y]
          /\ typed_type[last.self].name = "Foo"
          /\ typed_type[last.self] # typed_type[x]

\* C24: Multiplicity(min, max) fails when max is an integer smaller than
\* min and when max is a string other than "*"; Multiplicity(min, "*") with
\* a valid min (min >= 0) succeeds and its max is the unbounded sentinel
\* 9999.
C24_MultiplicityConstructor ==
    [][last'.op = "Multiplicity" =>
          LET m == last'.self
              lo == last'.arg[1].n
              hi == last'.arg[2]
          IN /\ (hi.int /\ hi.n < lo) => (last'.raised /\ UNCHANGED mult_vars)
             /\ (~hi.int /\ hi.s # "*") => (last'.raised /\ UNCHANGED mult_vars)
             /\ (~hi.int /\ hi.s = "*" /\ lo >= 0)
                   => /\ ~last'.raised
                      /\ m \in multiplicities'
                      /\ min'[m] = lo
                      /\ max'[m] = 9999]_vars

\* Multiplicity(2, "*") has been constructed, and its max is 9999.
C24_Witness ==
    /\ last.op = "Multiplicity" /\ ~last.raised
    /\ last.arg = <<IntArg(2), StrArg("*")>>
    /\ last.self \in multiplicities
    /\ min[last.self] = 2 /\ max[last.self] = UNLIMITED_MAX_MULTIPLICITY

\* C25: the assignment c.attributes = c.attributes - {p}, for an attribute
\* p of c, succeeds; afterwards p is no attribute of c, every other
\* attribute still is one and is owned by c, and the owner of p is what it
\* was, the class c.
C25_RemoveAttribute ==
    [][(/\ last'.op = "attributes"
        /\ last'.arg[1] \notin Referenced(attributes, methods)
        /\ \E x \in elements[attributes[last'.self]] :
              last'.arg[2] = elements[attributes[last'.self]] \ {x}) =>
          LET c == last'.self
              held == elements[attributes[c]]
              x == CHOOSE y \in held : last'.arg[2] = held \ {y}
          IN /\ ~last'.raised
             /\ x \notin elements'[attributes'[c]]
             /\ \A y \in held \ {x} :
                   /\ y \in elements'[attributes'[c]]
                   /\ prop_owner'[y[2]] = ClassOwner(c)
             /\ prop_owner'[x[2]] = prop_owner[x[2]]
             /\ prop_owner'[x[2]] = ClassOwner(c)]_vars

\* The parents of c, their parents, and so on.
Ancestors(c) == {p \in Classes : c \in Descendants(p)}

\* C26: when the generalizations form an acyclic graph, parents() of a
\* class is the set of the general classes of the generalizations of which
\* it is the specific class, all_parents() the set of its ancestors,
\* specializations() and all_specializations() the same downwards; no
\* call fails, and the class itself is in none of the four sets.
C26_ParentsAndSpecializations ==
    Acyclic =>
        \A c \in Classes :
            /\ parents(c) = Returns({p \in Classes : IsParent(p, c)})
            /\ all_parents(c) = Returns(Ancestors(c))
            /\ specializations(c) = Returns({d \in Classes : IsParent(c, d)})
            /\ all_specializations(c) = Returns(Descendants(c))
            /\ c \notin parents(c).value \cup all_parents(c).value
            /\ c \notin specializations(c).value \cup all_specializations(c).value

\* C27: the properties constructed without a multiplicity have independent
\* multiplicities: an assignment to min or max of the multiplicity of one of
\* them leaves the multiplicity of every other one as it was, 1..1.
C27_DefaultMultiplicitiesIndependent ==
    [][(last'.op \in {"min", "max"} /\ ~last'.raised) =>
          \A p \in Attrs : \A q \in Attrs \ {p} :
              (/\ multiplicity[p] = last'.self
               /\ multiplicity[p] = DefaultMultiplicity
               /\ multiplicity[q] = DefaultMultiplicity)
                 => /\ min'[multiplicity'[q]] = min[multiplicity[q]]
                    /\ max'[multiplicity'[q]] = max[multiplicity[q]]]_vars

\* C28: when update_association succeeds and has reassigned the type of an
\* existing end of the association from class X to class Y before it
\* assigned the ends, then afterwards the association is in X.associations
\* only if one of its ends has type X, and it is in Y.associations.
C28_UpdateKeepsBackReferences ==
    [][(last'.op = "update_association" /\ ~last'.raised) =>
          LET a == last'.self
              new_ends == last'.arg
          IN \A i \in DOMAIN new_ends :
                (new_ends[i] \in ends[a] /\ type'[new_ends[i]] # type[new_ends[i]]) =>
                   LET X == type[new_ends[i]]
                       Y == type'[new_ends[i]]
                   IN /\ a \in associations'[X] => \E e \in ends'[a] : type'[e] = X
                      /\ a \in associations'[Y]]_vars

\* C29: classes_sorted_by_inheritance() returns, and every list it can
\* return holds exactly the classes of the model, each once, also when a
\* class of the model has a generalization whose general class is no type
\* of the model.
C29_SortOfModelClasses ==
    LET returned == classes_sorted_by_inheritance
    IN /\ returned # {}
       /\ \A r \in returned :
             /\ {r[i] : i \in 1..Len(r)} = get_classes
             /\ Len(r) = Cardinality(get_classes)

\* C30: AssociationClass(name, attributes, association, timestamp,
\* synonyms), given attributes that a class accepts, succeeds for every
\* timestamp and every list of synonyms; the object has the given
\* timestamp and the given synonyms, no methods, is_abstract = False,
\* is_read_only = False, and the association passed.
C30_AssociationClassConstructor ==
    [][(last'.op = "AssociationClass" /\ ~AttributesSetterRaises(last'.arg[2])) =>
          LET x == last'.self
              ac == association_class'[x]
              association == last'.arg[3]
              timestamp == last'.arg[4]
              synonyms == last'.arg[5]
          IN /\ ~last'.raised
             /\ ac.constructed
             /\ timestamp # PyNone => ac.timestamp = timestamp
             /\ ac.synonyms = synonyms
             /\ methods'[AsClass(x)] # None /\ elements'[methods'[AsClass(x)]] = {}
             /\ ac.is_abstract = PyBool(FALSE)
             /\ ac.is_read_only = PyBool(FALSE)
             /\ ac.association = association]_vars

====
